---- MODULE Spec2Model ----
(***************************************************************************)
(* Decision platform: the case lifecycle (CaseService), the transition     *)
(* guard and rule evaluation (PolicyEngine) and the audit log              *)
(* (AuditService), the agents and their orchestrator (AgentOrchestrator)   *)
(* with its voting strategies, as a state machine.                         *)
(*                                                                         *)
(* A worker is one request task.  It advances one step per database round *)
(* trip (an await on the session), so two requests on the same case        *)
(* interleave exactly where the asyncio tasks can.  The stores are the     *)
(* tables behind the session: cases, queue (queue_assignments) and writes  *)
(* (the committed UPDATEs of cases.status, in commit order); audit is the  *)
(* events the services hand to log_event, in call order.                   *)
(*                                                                         *)
(* An agent's confidence is a per-mille integer (0.95 is 950); the         *)
(* confidence of an ensemble is in millionths (0.95 is 950000), which      *)
(* keeps the weighted mean exact against the literals of the rules.        *)
(***************************************************************************)
EXTENDS Integers, Sequences, FiniteSets, TLC

VARIABLES cases, audit, writes, queue, workers, pool, opCount, policy, guard,
          run, vote, evidence_store, eval, trail

vars == <<cases, audit, writes, queue, workers, pool, opCount, policy, guard,
          run, vote, evidence_store, eval, trail>>

(***************************************************************************)
(* Bounds of the model.                                                    *)
(***************************************************************************)
MaxCases == 1
MaxOps == 3
MaxRecs == 4

CaseIds == 1..MaxCases
Workers == {1, 2}

(***************************************************************************)
(* schemas.py: the enums.                                                  *)
(***************************************************************************)
CaseStatus ==
    {"draft", "submitted", "processing", "under_review",
     "under_review.identity_check", "under_review.fraud_check",
     "under_review.compliance_check", "under_review.manual_review",
     "approved", "rejected", "needs_more_info", "expired"}

ActionType == {"approve", "reject", "manual_review", "escalate", "request_more_info"}

ActorType == {"system", "human", "api"}

TerminalStatuses == {"approved", "rejected", "expired"}

(***************************************************************************)
(* PolicyEngine._get_mock_kyc_policy: the state machine and the rules.     *)
(* A transition key "FROM -> TO" is the pair <<FROM, TO>>; the table maps  *)
(* it to the entry's allowed_actors.                                       *)
(***************************************************************************)
KycStateMachine ==
    (<<"draft", "submitted">> :> {"customer", "api"}) @@
    (<<"submitted", "processing">> :> {"system"}) @@
    (<<"processing", "under_review.*">> :> {"system", "workflow_engine"}) @@
    (<<"under_review.*", "approved">> :> {"workflow_engine", "reviewer"}) @@
    (<<"under_review.*", "rejected">> :> {"workflow_engine", "reviewer"}) @@
    (<<"under_review.*", "needs_more_info">> :> {"reviewer"}) @@
    (<<"needs_more_info", "submitted">> :> {"customer"}) @@
    (<<"*", "expired">> :> {"system"})

(* A condition is a small expression tree: the wildcard, a comparison of   *)
(* a context path with a literal, or a conjunction.  Cmp and And are the   *)
(* Python forms (context['a']['b'] > x, l and r); Dot and AndDsl are the   *)
(* forms of the rule DSL (a.b > x, l AND r).                               *)
Star == [op |-> "*"]
Cmp(path, rel, lit) == [op |-> "cmp", path |-> path, rel |-> rel, lit |-> lit]
And(l, r) == [op |-> "and", l |-> l, r |-> r]
Dot(path, rel, lit) == [op |-> "dot", path |-> path, rel |-> rel, lit |-> lit]
AndDsl(l, r) == [op |-> "AND", l |-> l, r |-> r]

KycRules ==
    << [priority |-> 1, name |-> "Sanctions Hit",
        condition |-> Cmp(<<"compliance", "sanctions_screening", "status">>, "==", "hit"),
        action |-> "escalate", assignee_role |-> "senior_compliance_officer",
        sla_hours |-> 2],
       [priority |-> 2, name |-> "High Confidence Auto-Approve",
        condition |-> And(Cmp(<<"ensemble", "confidence">>, ">", 950000),
                          Cmp(<<"ensemble", "risk_score">>, "<", 20)),
        action |-> "approve", assignee_role |-> "none", sla_hours |-> 0],
       [priority |-> 3, name |-> "Low Confidence Manual Review",
        condition |-> Cmp(<<"ensemble", "confidence">>, "<", 700000),
        action |-> "manual_review", assignee_role |-> "kyc_analyst",
        sla_hours |-> 24],
       [priority |-> 99, name |-> "Default Manual Review",
        condition |-> Star,
        action |-> "manual_review", assignee_role |-> "kyc_analyst",
        sla_hours |-> 24] >>

KycPolicy ==
    [policy_id |-> "pol_kyc_v1", rules |-> KycRules, state_machine |-> KycStateMachine]

(***************************************************************************)
(* A second policy record the policy store can hold: its state machine     *)
(* spells the review transitions out as exact keys, and its rules use the  *)
(* remaining actions and have no default rule.                             *)
(***************************************************************************)
ExactStateMachine ==
    (<<"draft", "submitted">> :> {"customer", "api"}) @@
    (<<"submitted", "processing">> :> {"system"}) @@
    (<<"processing", "approved">> :> {"system"}) @@
    (<<"processing", "rejected">> :> {"system"}) @@
    (<<"processing", "under_review.manual_review">> :> {"system", "workflow_engine"}) @@
    (<<"under_review.manual_review", "approved">> :> {"workflow_engine", "reviewer"}) @@
    (<<"under_review.manual_review", "rejected">> :> {"reviewer"}) @@
    (<<"under_review.manual_review", "needs_more_info">> :> {"reviewer"}) @@
    (<<"needs_more_info", "submitted">> :> {"customer"}) @@
    (<<"*", "expired">> :> {"system"})

ExactRules ==
    << [priority |-> 3, name |-> "Elevated Risk",
        condition |-> Cmp(<<"ensemble", "risk_score">>, ">", 20),
        action |-> "escalate", assignee_role |-> "fraud_team", sla_hours |-> 4],
       [priority |-> 1, name |-> "High Risk Reject",
        condition |-> Cmp(<<"ensemble", "risk_score">>, ">=", 80),
        action |-> "reject", assignee_role |-> "none", sla_hours |-> 0],
       [priority |-> 2, name |-> "Ask Customer",
        condition |-> Cmp(<<"ensemble", "confidence">>, ">", 950000),
        action |-> "request_more_info", assignee_role |-> "none", sla_hours |-> 0] >>

ExactPolicy ==
    [policy_id |-> "pol_exact_v1", rules |-> ExactRules, state_machine |-> ExactStateMachine]

PolicyStore == {KycPolicy, ExactPolicy}

(***************************************************************************)
(* PolicyEngine.is_transition_allowed.                                     *)
(***************************************************************************)
actor_map(actor) ==
    CASE actor = "system" -> "system"
      [] actor = "human" -> "reviewer"
      [] actor = "api" -> "api"

(* The key whose entry the guard reads: the exact key, else "* -> TO",     *)
(* else none.                                                              *)
NoKey == <<"none", "none">>

matched_key(state_machine, from_state, to_state) ==
    LET transition_key == <<from_state, to_state>>
        wildcard_key == <<"*", to_state>>
    IN  IF transition_key \in DOMAIN state_machine THEN transition_key
        ELSE IF wildcard_key \in DOMAIN state_machine THEN wildcard_key
        ELSE NoKey

actor_permitted(allowed_actors, actor) ==
    actor_map(actor) \in allowed_actors \/ "workflow_engine" \in allowed_actors

is_transition_allowed(state_machine, from_state, to_state, actor) ==
    LET key == matched_key(state_machine, from_state, to_state)
        allowed_actors == IF key = NoKey THEN {} ELSE state_machine[key]
    IN  IF allowed_actors = {} THEN FALSE
        ELSE actor_permitted(allowed_actors, actor)

(***************************************************************************)
(* PolicyEngine._build_eval_context, _evaluate_condition, _safe_eval and   *)
(* evaluate_rules.                                                         *)
(***************************************************************************)
build_eval_context(case, ensemble) ==
    [case |-> [priority |-> case.priority, vertical |-> case.vertical,
               status |-> case.status],
     ensemble |-> [confidence |-> ensemble.confidence,
                   risk_score |-> ensemble.risk_score,
                   risk_flags |-> ensemble.risk_flags,
                   action |-> ensemble.action]]

(* context[k1][k2]...: a missing key is a KeyError.                        *)
RECURSIVE lookup(_, _)
lookup(ctx, path) ==
    IF path = <<>> THEN [ok |-> TRUE, val |-> ctx]
    ELSE IF Head(path) \in DOMAIN ctx THEN lookup(ctx[Head(path)], Tail(path))
    ELSE [ok |-> FALSE, val |-> 0]

(* The comparisons with the strict ones read as inclusive.                 *)
compare_inclusive(rel, a, b) ==
    CASE rel = "==" -> a = b
      [] rel = "!=" -> a # b
      [] rel = ">" -> a >= b
      [] rel = "<" -> a <= b
      [] rel = ">=" -> a >= b
      [] rel = "<=" -> a <= b

compare(rel, a, b) ==
    CASE rel = "==" -> a = b
      [] rel = "!=" -> a # b
      [] rel = ">" -> a > b
      [] rel = "<" -> a < b
      [] rel = ">=" -> a >= b
      [] rel = "<=" -> a <= b

(* _translate_condition: the regular expression turns every dotted path   *)
(* word.word... into subscripts of context; a name without a dot is not a  *)
(* match and stays a bare name.  " AND " becomes " and ".                  *)
RECURSIVE translate_condition(_)
translate_condition(condition) ==
    CASE condition.op = "dot" ->
             IF Len(condition.path) >= 2
             THEN Cmp(condition.path, condition.rel, condition.lit)
             ELSE [condition EXCEPT !.op = "name"]
      [] condition.op \in {"AND", "and"} ->
             And(translate_condition(condition.l), translate_condition(condition.r))
      [] OTHER -> condition

(* The value of eval(): "T", "F", or "E" when the evaluation raises (a     *)
(* KeyError of a subscript, the NameError of a bare name).  Python's `and` *)
(* does not evaluate its right operand after a false left.                 *)
RECURSIVE eval_expr(_, _)
eval_expr(cond, ctx) ==
    CASE cond.op = "cmp" ->
             LET v == lookup(ctx, cond.path)
             IN  IF ~v.ok THEN "E"
                 ELSE IF compare(cond.rel, v.val, cond.lit) THEN "T" ELSE "F"
      [] cond.op = "and" ->
             LET l == eval_expr(cond.l, ctx)
             IN  IF l = "T" THEN eval_expr(cond.r, ctx) ELSE l
      [] OTHER -> "E"

(* _safe_eval: an exception of eval() is caught and gives False.           *)
safe_eval(cond, ctx) == eval_expr(cond, ctx) = "T"

evaluate_condition(condition, ctx) ==
    IF condition.op = "*" THEN TRUE
    ELSE safe_eval(translate_condition(condition), ctx)

NoMatch == [name |-> "none", action |-> "none", assignee_role |-> "none", sla_hours |-> 0]

(* evaluate_rules without the sort: the first rule listed whose condition  *)
(* holds.                                                                  *)
evaluate_rules_unsorted(pol, case, ensemble) ==
    LET rules == pol.rules
        context == build_eval_context(case, ensemble)
        hits == {i \in DOMAIN rules : evaluate_condition(rules[i].condition, context)}
        first == CHOOSE i \in hits : \A j \in hits : i <= j
    IN  IF hits = {} THEN NoMatch
        ELSE [name |-> rules[first].name, action |-> rules[first].action,
              assignee_role |-> rules[first].assignee_role,
              sla_hours |-> rules[first].sla_hours]

(* evaluate_rules with the exception of a condition let through: a rule    *)
(* that raises before any rule has matched ends the call, as no match.     *)
evaluate_rules_raising(pol, case, ensemble) ==
    LET rules == pol.rules
        context == build_eval_context(case, ensemble)
        hits == {i \in DOMAIN rules : evaluate_condition(rules[i].condition, context)}
        first == CHOOSE i \in hits : \A j \in hits :
                     \/ rules[i].priority < rules[j].priority
                     \/ (rules[i].priority = rules[j].priority /\ i <= j)
        raised == \E i \in DOMAIN rules :
                     /\ rules[i].condition.op # "*"
                     /\ eval_expr(translate_condition(rules[i].condition), context) = "E"
                     /\ \/ rules[i].priority < rules[first].priority
                        \/ (rules[i].priority = rules[first].priority /\ i < first)
    IN  IF hits = {} \/ raised THEN NoMatch
        ELSE [name |-> rules[first].name, action |-> rules[first].action,
              assignee_role |-> rules[first].assignee_role,
              sla_hours |-> rules[first].sla_hours]

(* sorted() is stable: among the rules whose condition holds, the one with *)
(* the least priority, the earliest listed on a tie.  No rule: ValueError, *)
(* returned here as NoMatch.                                               *)
evaluate_rules(pol, case, ensemble) ==
    LET rules == pol.rules
        context == build_eval_context(case, ensemble)
        hits == {i \in DOMAIN rules : evaluate_condition(rules[i].condition, context)}
        first == CHOOSE i \in hits : \A j \in hits :
                     \/ rules[i].priority < rules[j].priority
                     \/ (rules[i].priority = rules[j].priority /\ i <= j)
    IN  IF hits = {} THEN NoMatch
        ELSE [name |-> rules[first].name, action |-> rules[first].action,
              assignee_role |-> rules[first].assignee_role,
              sla_hours |-> rules[first].sla_hours]

(***************************************************************************)
(* The stores and the workers.                                             *)
(***************************************************************************)
NoCase ==
    [status |-> "none", vertical |-> "none", priority |-> "none",
     policy_version |-> "none", sla_deadline |-> "null"]

Exists(c) == cases[c].status # "none"

(* A worker: the operation it runs (op, id, case_id, actor, action), its   *)
(* position (pc), the local `case` of submit_case (sub_case) and of        *)
(* process_case / review_case (case), the pending _transition_case call    *)
(* (to, tr_actor, k: where the caller resumes), the rule match, and, once  *)
(* the operation is over, how it ended (result) and what it returned (ret; *)
(* processed is what the process_case call returned).  Of a run of the     *)
(* agents it keeps how evidence collection ended (evidence), which agents  *)
(* raised (agent_errors), the final recommendation of the ensemble and the *)
(* name of the matched rule.                                               *)
NoDecision == [action |-> "none", risk_score |-> 0]

Idle ==
    [pc |-> "idle", op |-> "none", id |-> 0, case_id |-> 0, actor |-> "none",
     action |-> "none", seen |-> "none", sub_case |-> "none", case |-> "none",
     to |-> "none", tr_actor |-> "none", k |-> "none", match |-> NoMatch,
     failed |-> FALSE, result |-> "none", ret |-> "none", processed |-> "none",
     evidence |-> "none", agent_errors |-> {}, ensemble |-> NoDecision,
     rule |-> "none"]

(* Requests are taken by the workers of the pool, the first free one.      *)
Free(w) ==
    /\ w \in pool
    /\ workers[w].pc \in {"idle", "done"}
    /\ \A v \in pool : workers[v].pc \in {"idle", "done"} => ~(v < w)

Begin(op, id, c, actor, action, seen) ==
    [Idle EXCEPT !.op = op, !.id = id, !.case_id = c, !.actor = actor,
                 !.action = action, !.seen = seen]

(* The operation is over: the locals are gone, the outcome stays.          *)
Finished(wr, result, ret, processed) ==
    [Idle EXCEPT !.pc = "done", !.op = wr.op, !.id = wr.id, !.case_id = wr.case_id,
                 !.actor = wr.actor, !.action = wr.action, !.seen = wr.seen,
                 !.failed = wr.failed, !.result = result, !.ret = ret,
                 !.processed = processed, !.evidence = wr.evidence,
                 !.agent_errors = wr.agent_errors,
                 !.ensemble = wr.ensemble, !.rule = wr.rule]

(* AuditService.log_event: one row of the audit table.                     *)
AuditEvent(c, event_type, actor, from_state, to_state, id) ==
    [case_id |-> c, event_type |-> event_type, actor |-> actor,
     from_state |-> from_state, to_state |-> to_state, op |-> id]

(* _transition_case without its log_event call.                            *)
transition_case_unlogged(wr, to_status, actor, k) ==
    [wr EXCEPT !.pc = "tr_write", !.to = to_status, !.tr_actor = actor, !.k = k]

(* CaseService._transition_case is two round trips: the audit insert       *)
(* (pc "tr_log"), then the status update and commit (pc "tr_write").       *)
transition_case(wr, to_status, actor, k) ==
    [wr EXCEPT !.pc = "tr_log", !.to = to_status, !.tr_actor = actor, !.k = k]

(***************************************************************************)
(* CaseService.create_case.                                                *)
(***************************************************************************)
Verticals == {"kyc", "insurance"}

(* PolicyEngine.get_active_policy raises for every vertical but "kyc";      *)
(* get_policy returns the stored policy whatever the id.                   *)
has_active_policy(vertical) == vertical = "kyc"

get_policy == policy

(* create_case with the row and the event inserted before the policy is   *)
(* looked up.                                                              *)
CreateCaseLate(w, vertical) ==
    /\ Free(w)
    /\ LET pol == get_policy
           fresh == {c \in CaseIds : ~Exists(c)}
       IN  /\ fresh # {}
           /\ LET c == CHOOSE x \in fresh : \A y \in fresh : x <= y
              IN  /\ cases' = [cases EXCEPT ![c] =
                          [status |-> "draft", vertical |-> vertical,
                           priority |-> "normal",
                           policy_version |-> pol.policy_id,
                           sla_deadline |-> "null"]]
                  /\ audit' = Append(audit,
                          AuditEvent(c, "case.created", "api", "none", "none", 0))
                  /\ workers' = [workers EXCEPT ![w] =
                          IF ~has_active_policy(vertical)
                          THEN Finished(Begin("create", 0, 0, "api", "none", "none"),
                                        "no_active_policy", "none", "none")
                          ELSE Finished(Begin("create", 0, c, "api", "none", "none"),
                                        "ok", "draft", "none")]
    /\ UNCHANGED <<writes, queue, opCount, pool, policy, guard, run, vote,
                 evidence_store, eval, trail>>

CreateCase(w, vertical) ==
    /\ Free(w)
    /\ LET pol == get_policy
           fresh == {c \in CaseIds : ~Exists(c)}
       IN  IF ~has_active_policy(vertical)
           THEN /\ workers' = [workers EXCEPT ![w] =
                        Finished(Begin("create", 0, 0, "api", "none", "none"),
                                 "no_active_policy", "none", "none")]
                /\ workers'[w] # workers[w]
                /\ UNCHANGED <<cases, audit,
                 evidence_store, eval, trail>>
           ELSE /\ fresh # {}
                /\ LET c == CHOOSE x \in fresh : \A y \in fresh : x <= y
                   IN  /\ cases' = [cases EXCEPT ![c] =
                               [status |-> "draft", vertical |-> vertical,
                                priority |-> "normal",
                                policy_version |-> pol.policy_id,
                                sla_deadline |-> "null"]]
                       /\ audit' = Append(audit,
                               AuditEvent(c, "case.created", "api", "none", "none", 0))
                       /\ workers' = [workers EXCEPT ![w] =
                               Finished(Begin("create", 0, c, "api", "none", "none"),
                                        "ok", "draft", "none")]
    /\ UNCHANGED <<writes, queue, opCount, pool, policy, guard, run, vote,
                 evidence_store, eval, trail>>

(***************************************************************************)
(* CaseService.submit_case: get_case and _validate_transition, then the    *)
(* transition to SUBMITTED, then process_case.                             *)
(***************************************************************************)
SubmitCase(w, c, actor) ==
    /\ Free(w)
    /\ opCount < MaxOps
    /\ opCount' = opCount + 1
    /\ LET seen == cases[c].status
           wr == Begin("submit", opCount + 1, c, actor, "none", seen)
       IN  workers' = [workers EXCEPT ![w] =
               IF ~Exists(c) THEN Finished(wr, "not_found", "none", "none")
               ELSE IF ~is_transition_allowed(get_policy.state_machine, seen,
                                              "submitted", actor)
               THEN Finished(wr, "refused", "none", "none")
               ELSE transition_case([wr EXCEPT !.sub_case = seen],
                                    "submitted", actor, "process_case")]
    /\ UNCHANGED <<cases, audit, writes, queue, pool, policy, guard, run, vote,
                 evidence_store, eval, trail>>

(***************************************************************************)
(* CaseService.process_case: get_case, then the unvalidated transition to  *)
(* PROCESSING.                                                             *)
(***************************************************************************)
process_case(wr, c) ==
    transition_case([wr EXCEPT !.case = cases[c].status],
                    "processing", "system", "pipeline")

ProcessCase(w, c) ==
    /\ Free(w)
    /\ opCount < MaxOps
    /\ opCount' = opCount + 1
    /\ LET wr == Begin("process", opCount + 1, c, "system", "none", cases[c].status)
       IN  workers' = [workers EXCEPT ![w] =
               IF ~Exists(c) THEN Finished(wr, "not_found", "none", "none")
               ELSE process_case(wr, c)]
    /\ UNCHANGED <<cases, audit, writes, queue, pool, policy, guard, run, vote,
                 evidence_store, eval, trail>>

(* process_case as called by submit_case.                                  *)
SubmitProcess(w) ==
    /\ workers[w].pc = "process_case"
    /\ workers' = [workers EXCEPT ![w] = process_case(workers[w], workers[w].case_id)]
    /\ UNCHANGED <<cases, audit, writes, queue, opCount, pool, policy, guard, run, vote,
                 evidence_store, eval, trail>>

(***************************************************************************)
(* CaseService.review_case.                                                *)
(***************************************************************************)
status_map(action) ==
    CASE action = "approve" -> "approved"
      [] action = "reject" -> "rejected"
      [] action = "request_more_info" -> "needs_more_info"
      [] OTHER -> "none"

(* review_case without its _validate_transition call.                      *)
ReviewCaseUnvalidated(w, c, reviewer, action) ==
    /\ Free(w)
    /\ opCount < MaxOps
    /\ opCount' = opCount + 1
    /\ LET seen == cases[c].status
           to_status == status_map(action)
           wr == Begin("review", opCount + 1, c, reviewer, action, seen)
       IN  workers' = [workers EXCEPT ![w] =
               IF ~Exists(c) THEN Finished(wr, "not_found", "none", "none")
               ELSE IF to_status = "none"
               THEN Finished(wr, "invalid_action", "none", "none")
               ELSE transition_case([wr EXCEPT !.case = seen],
                                    to_status, reviewer, "return")]
    /\ UNCHANGED <<cases, audit, writes, queue, pool, policy, guard, run, vote,
                 evidence_store, eval, trail>>

ReviewCase(w, c, reviewer, action) ==
    /\ Free(w)
    /\ opCount < MaxOps
    /\ opCount' = opCount + 1
    /\ LET seen == cases[c].status
           to_status == status_map(action)
           wr == Begin("review", opCount + 1, c, reviewer, action, seen)
       IN  workers' = [workers EXCEPT ![w] =
               IF ~Exists(c) THEN Finished(wr, "not_found", "none", "none")
               ELSE IF to_status = "none"
               THEN Finished(wr, "invalid_action", "none", "none")
               ELSE IF ~is_transition_allowed(get_policy.state_machine, seen,
                                              to_status, reviewer)
               THEN Finished(wr, "refused", "none", "none")
               ELSE transition_case([wr EXCEPT !.case = seen],
                                    to_status, reviewer, "return")]
    /\ UNCHANGED <<cases, audit, writes, queue, pool, policy, guard, run, vote,
                 evidence_store, eval, trail>>

(***************************************************************************)
(* CaseService._transition_case, first round trip: the audit event, with   *)
(* from_state taken from the caller's `case` object.                       *)
(***************************************************************************)
local_case(wr) == IF wr.k = "process_case" THEN wr.sub_case ELSE wr.case

TransitionLog(w) ==
    /\ workers[w].pc = "tr_log"
    /\ LET wr == workers[w]
       IN  /\ audit' = Append(audit,
                   AuditEvent(wr.case_id, "state_transition", wr.tr_actor,
                              local_case(wr), wr.to, wr.id))
           /\ workers' = [workers EXCEPT ![w].pc = "tr_write"]
    /\ UNCHANGED <<cases, writes, queue, opCount, pool, policy, guard, run, vote,
                 evidence_store, eval, trail>>

(***************************************************************************)
(* _transition_case, second round trip: status, sla_deadline and commit;   *)
(* the refreshed row is what the caller gets back.                         *)
(***************************************************************************)
returned(wr) == IF wr.op = "submit" THEN wr.sub_case ELSE wr.to

(* What the caller resumes with after the commit of _transition_case.      *)
resume(wr) ==
    CASE wr.k = "process_case" ->
             [wr EXCEPT !.pc = "process_case", !.sub_case = wr.to]
      [] wr.k = "pipeline" ->
             [wr EXCEPT !.pc = "pipeline", !.case = wr.to]
      [] wr.k = "queue" ->
             [wr EXCEPT !.pc = "queue"]
      [] wr.k = "return" ->
             Finished(wr, "ok", returned(wr),
                      IF wr.op = "review" THEN "none" ELSE wr.to)

(* The status write without the clearing of sla_deadline.                  *)
TransitionWriteKeepsSla(w) ==
    /\ workers[w].pc = "tr_write"
    /\ LET wr == workers[w]
           c == wr.case_id
       IN  /\ cases' = [cases EXCEPT ![c].status = wr.to]
           /\ writes' = Append(writes,
                   [case_id |-> c, from_state |-> cases[c].status,
                    to_state |-> wr.to, actor |-> wr.tr_actor, op |-> wr.id])
           /\ workers' = [workers EXCEPT ![w] = resume(wr)]
    /\ UNCHANGED <<audit, queue, opCount, pool, policy, guard, run, vote,
                 evidence_store, eval, trail>>

(* The status write that also stamps the row with the policy in force.     *)
TransitionWriteRebinds(w) ==
    /\ workers[w].pc = "tr_write"
    /\ LET wr == workers[w]
           c == wr.case_id
       IN  /\ cases' = [cases EXCEPT
                   ![c].status = wr.to,
                   ![c].policy_version = policy.policy_id,
                   ![c].sla_deadline =
                       IF wr.to \in TerminalStatuses THEN "null" ELSE @]
           /\ writes' = Append(writes,
                   [case_id |-> c, from_state |-> cases[c].status,
                    to_state |-> wr.to, actor |-> wr.tr_actor, op |-> wr.id])
           /\ workers' = [workers EXCEPT ![w] = resume(wr)]
    /\ UNCHANGED <<audit, queue, opCount, pool, policy, guard, run, vote,
                 evidence_store, eval, trail>>

TransitionWrite(w) ==
    /\ workers[w].pc = "tr_write"
    /\ LET wr == workers[w]
           c == wr.case_id
       IN  /\ cases' = [cases EXCEPT
                   ![c].status = wr.to,
                   ![c].sla_deadline =
                       IF wr.to \in TerminalStatuses THEN "null" ELSE @]
           /\ writes' = Append(writes,
                   [case_id |-> c, from_state |-> cases[c].status,
                    to_state |-> wr.to, actor |-> wr.tr_actor, op |-> wr.id])
           /\ workers' = [workers EXCEPT ![w] = resume(wr)]
    /\ UNCHANGED <<audit, queue, opCount, pool, policy, guard, run, vote,
                 evidence_store, eval, trail>>

(***************************************************************************)
(* process_case, steps 1 to 5 up to the decision's transition.  Evidence   *)
(* collection, the agents and the voter are the collaborators: they hand   *)
(* over an ensemble recommendation or raise.  evaluate_rules raises when   *)
(* no rule matches.                                                        *)
(***************************************************************************)
EnsembleSamples ==
    { [confidence |-> 960000, risk_score |-> 10, risk_flags |-> {}, action |-> "approve"],
      [confidence |-> 945000, risk_score |-> 23, risk_flags |-> {"address_unverified"},
       action |-> "approve"],
      [confidence |-> 600000, risk_score |-> 85, risk_flags |-> {"agent_error"},
       action |-> "manual_review"],
      [confidence |-> 800000, risk_score |-> 15, risk_flags |-> {}, action |-> "approve"] }

(* CaseService._execute_decision: the branch taken for the rule's action.  *)
execute_decision(wr, rule_match) ==
    LET wm == [wr EXCEPT !.match = rule_match]
    IN  CASE rule_match.action = "approve" ->
                 transition_case(wm, "approved", "system", "return")
          [] rule_match.action = "reject" ->
                 transition_case(wm, "rejected", "system", "return")
          [] rule_match.action \in {"manual_review", "escalate"} ->
                 transition_case(wm, "under_review.manual_review", "system", "queue")
          [] OTHER ->
                 Finished(wr, "ok", returned([wr EXCEPT !.to = wr.case]), wr.case)

(* The except branch of process_case starts here.                          *)
raise(wr) == [wr EXCEPT !.pc = "failed", !.failed = TRUE]

Pipeline(w) ==
    /\ workers[w].pc = "pipeline"
    /\ LET wr == workers[w]
           case == [cases[wr.case_id] EXCEPT !.status = wr.case]
       IN  \/ workers' = [workers EXCEPT ![w] = raise(wr)]
           \/ \E ensemble \in EnsembleSamples :
                 LET rule_match == evaluate_rules(get_policy, case, ensemble)
                 IN  workers' = [workers EXCEPT ![w] =
                         IF rule_match = NoMatch THEN raise(wr)
                         ELSE execute_decision(wr, rule_match)]
    /\ UNCHANGED <<cases, audit, writes, queue, opCount, pool, policy, guard, run, vote,
                 evidence_store, eval, trail>>

(***************************************************************************)
(* CaseService._create_queue_assignment, called by _execute_decision after *)
(* the transition to manual review has been committed; the flush may       *)
(* raise.                                                                  *)
(***************************************************************************)
calculate_priority(priority) ==
    CASE priority = "urgent" -> 100
      [] priority = "high" -> 75
      [] priority = "normal" -> 50
      [] priority = "low" -> 25
      [] OTHER -> 50

QueueAssignment(w) ==
    /\ workers[w].pc = "queue"
    /\ LET wr == workers[w]
       IN  \/ /\ queue' = Append(queue,
                      [case_id |-> wr.case_id,
                       queue |-> wr.match.assignee_role,
                       assigned_role |-> wr.match.assignee_role,
                       sla_hours |-> wr.match.sla_hours,
                       priority |-> calculate_priority(cases[wr.case_id].priority),
                       op |-> wr.id])
              /\ workers' = [workers EXCEPT ![w] =
                      Finished(wr, "ok", returned(wr), wr.to)]
           \/ /\ workers' = [workers EXCEPT ![w] = raise(wr)]
              /\ UNCHANGED queue
    /\ UNCHANGED <<cases, audit, writes, opCount, pool, policy, guard, run, vote,
                 evidence_store, eval, trail>>

(***************************************************************************)
(* process_case, the except branch: the case.processing_failed event, then *)
(* _transition_case from the `case` object process_case still holds.       *)
(***************************************************************************)
(* The except branch without its case.processing_failed event.             *)
ProcessingFailedSilent(w) ==
    /\ workers[w].pc = "failed"
    /\ workers' = [workers EXCEPT ![w] =
           transition_case(workers[w], "under_review.manual_review", "system", "return")]
    /\ UNCHANGED <<cases, audit, writes, queue, opCount, pool, policy, guard, run, vote,
                 evidence_store, eval, trail>>

ProcessingFailed(w) ==
    /\ workers[w].pc = "failed"
    /\ LET wr == workers[w]
       IN  /\ audit' = Append(audit,
                   AuditEvent(wr.case_id, "case.processing_failed", "system",
                              "none", "none", wr.id))
           /\ workers' = [workers EXCEPT ![w] =
                   transition_case(wr, "under_review.manual_review", "system", "return")]
    /\ UNCHANGED <<cases, writes, queue, opCount, pool, policy, guard, run, vote,
                 evidence_store, eval, trail>>

(***************************************************************************)
(* Evidence.  The evidence list of a case, by evidence type                *)
(* (get_evidence_by_type returns the first entry of a type): the fields    *)
(* the agents read.  expiry is how expiry_date compares with the clock     *)
(* ("none": no expiry_date; "unparsed": fromisoformat or the comparison    *)
(* raises, which the agent swallows).  sanctions "unknown" is a missing    *)
(* status.                                                                 *)
(***************************************************************************)
RequiredFields == {"full_name", "date_of_birth", "id_number"}

Identity(verified, confidence, fields, expiry, format_valid, checksum_valid) ==
    [present |-> TRUE, verified |-> verified, confidence |-> confidence,
     fields |-> fields, expiry |-> expiry, format_valid |-> format_valid,
     checksum_valid |-> checksum_valid]

NoIdentity ==
    [present |-> FALSE, verified |-> FALSE, confidence |-> 0, fields |-> {},
     expiry |-> "none", format_valid |-> TRUE, checksum_valid |-> TRUE]

Address(verified) == [present |-> TRUE, verified |-> verified]

NoAddress == [present |-> FALSE, verified |-> FALSE]

Compliance(sanctions, pep) == [present |-> TRUE, sanctions |-> sanctions, pep |-> pep]

NoCompliance == [present |-> FALSE, sanctions |-> "unknown", pep |-> "clear"]

RiskAssessment(risk_score, risk_flags) ==
    [present |-> TRUE, risk_score |-> risk_score, risk_flags |-> risk_flags]

NoRiskAssessment == [present |-> FALSE, risk_score |-> 0, risk_flags |-> <<>>]

Evidence(identity, address, compliance, risk_assessment) ==
    [identity |-> identity, address |-> address, compliance |-> compliance,
     risk_assessment |-> risk_assessment]

(* EvidenceService.extract_all_evidence: the four mock entries.            *)
MockEvidence ==
    Evidence(Identity(TRUE, 940, RequiredFields, "future", TRUE, TRUE),
             Address(FALSE),
             Compliance("clear", "clear"),
             RiskAssessment(23, <<"address_unverified">>))

(* Other evidence lists the orchestrator can be handed: a clean file, a    *)
(* sanctions hit, an expired document with a poor scan, and no evidence.   *)
EvidenceSamples ==
    { MockEvidence,
      Evidence(Identity(TRUE, 970, RequiredFields, "future", TRUE, TRUE),
               Address(TRUE), Compliance("clear", "clear"),
               RiskAssessment(10, <<>>)),
      Evidence(Identity(TRUE, 940, RequiredFields, "future", TRUE, TRUE),
               Address(TRUE), Compliance("hit", "clear"), NoRiskAssessment),
      Evidence(Identity(FALSE, 550, {"full_name"}, "past", TRUE, FALSE),
               NoAddress, Compliance("unknown", "hit"), NoRiskAssessment),
      Evidence(NoIdentity, NoAddress, NoCompliance, NoRiskAssessment) }

(***************************************************************************)
(* The agents (identity_agent.py).  analyze returns the recommendation     *)
(* data: action, confidence (per mille), risk_score and the list of        *)
(* risk_flags.  A risk_score of None is Null.                              *)
(***************************************************************************)
Null == -1

Min(a, b) == IF a < b THEN a ELSE b

Max(a, b) == IF a > b THEN a ELSE b

Flag(cond, flag) == IF cond THEN <<flag>> ELSE <<>>

Points(cond, n) == IF cond THEN n ELSE 0

RecommendationData(action, confidence, risk_score, risk_flags) ==
    [action |-> action, confidence |-> confidence, risk_score |-> risk_score,
     risk_flags |-> risk_flags]

IdentityAgent(evidence) ==
    LET identity_ev == evidence.identity
        verified == identity_ev.verified
        confidence == identity_ev.confidence
        missing_fields == RequiredFields \ identity_ev.fields
        is_expired == identity_ev.expiry = "past"
        risk_score == Points(missing_fields # {}, 30) + Points(~verified, 40)
                      + Points(is_expired, 50) + Points(confidence < 700, 20)
        risk_flags == Flag(missing_fields # {}, "incomplete_identity_data")
                      \o Flag(~verified, "identity_not_verified")
                      \o Flag(is_expired, "id_expired")
                      \o Flag(confidence < 700, "low_extraction_confidence")
        action == IF is_expired THEN "reject"
                  ELSE IF missing_fields # {} THEN "request_more_info"
                  ELSE IF verified /\ confidence > 900 /\ risk_flags = <<>> THEN "approve"
                  ELSE IF confidence < 600 THEN "manual_review"
                  ELSE "approve"
    IN  IF ~identity_ev.present
        THEN RecommendationData("manual_review", 0, 100, <<"missing_identity">>)
        ELSE RecommendationData(action, confidence, Min(risk_score, 100), risk_flags)

FraudAgent(evidence) ==
    LET identity_ev == evidence.identity
        fraud_indicators ==
            Flag(~identity_ev.format_valid, "invalid_format")
            \o Flag(~identity_ev.checksum_valid, "checksum_mismatch")
            \o Flag(identity_ev.confidence < 600, "poor_image_quality")
        risk_score == 10 + Points(~identity_ev.format_valid, 30)
                      + Points(~identity_ev.checksum_valid, 40)
                      + Points(identity_ev.confidence < 600, 20)
    IN  IF ~identity_ev.present
        THEN RecommendationData("manual_review", 500, 50, <<"no_fraud_analysis">>)
        ELSE IF Len(fraud_indicators) >= 2
        THEN RecommendationData("escalate", 300, Min(risk_score, 100), fraud_indicators)
        ELSE IF Len(fraud_indicators) = 1
        THEN RecommendationData("manual_review", 600, Min(risk_score, 100), fraud_indicators)
        ELSE RecommendationData("approve", 950, Min(risk_score, 100), fraud_indicators)

ComplianceAgent(evidence) ==
    LET compliance_ev == evidence.compliance
        sanctions_status == compliance_ev.sanctions
        pep_status == compliance_ev.pep
    IN  IF ~compliance_ev.present
        THEN RecommendationData("manual_review", 0, 100, <<"no_compliance_check">>)
        ELSE IF sanctions_status = "hit"
        THEN RecommendationData("escalate", 990, 100, <<"sanctions_hit">>)
        ELSE IF sanctions_status = "potential_match"
        THEN RecommendationData("manual_review", 700, 70, <<"potential_sanctions_match">>)
        ELSE IF pep_status = "hit"
        THEN RecommendationData("manual_review", 800, 60, <<"pep_match">>)
        ELSE IF sanctions_status = "clear"
        THEN RecommendationData("approve", 980, 0, <<>>)
        ELSE RecommendationData("manual_review", 500, 50, <<"screening_incomplete">>)

RiskAgent(evidence) ==
    LET identity_ev == evidence.identity
        address_ev == evidence.address
        compliance_ev == evidence.compliance
        risk_ev == evidence.risk_assessment
        low_identity == identity_ev.present /\ identity_ev.confidence < 700
        unverified == address_ev.present /\ ~address_ev.verified
        sanctions_hit == compliance_ev.present /\ compliance_ev.sanctions = "hit"
        collected == Points(low_identity, 20) + Points(~identity_ev.present, 50)
                     + Points(unverified, 15)
        overridden == IF sanctions_hit THEN 100 ELSE collected
        total_risk == IF risk_ev.present THEN Max(overridden, risk_ev.risk_score)
                      ELSE overridden
        risk_flags == Flag(low_identity, "low_identity_confidence")
                      \o Flag(~identity_ev.present, "missing_identity")
                      \o Flag(unverified, "address_unverified")
                      \o Flag(sanctions_hit, "sanctions_hit")
                      \o (IF risk_ev.present THEN risk_ev.risk_flags ELSE <<>>)
        risk_score == Min(total_risk, 100)
    IN  IF risk_score >= 80 THEN RecommendationData("escalate", 900, risk_score, risk_flags)
        ELSE IF risk_score >= 50
        THEN RecommendationData("manual_review", 750, risk_score, risk_flags)
        ELSE IF risk_score >= 30
        THEN RecommendationData("manual_review", 800, risk_score, risk_flags)
        ELSE RecommendationData("approve", 900, risk_score, risk_flags)

(***************************************************************************)
(* AgentOrchestrator: the registry, _run_agent and run_all_agents.         *)
(***************************************************************************)
AgentNames == <<"identity_agent", "fraud_agent", "compliance_agent", "risk_agent">>

Agents == DOMAIN AgentNames

analyze(agent_name, evidence) ==
    CASE agent_name = "identity_agent" -> IdentityAgent(evidence)
      [] agent_name = "fraud_agent" -> FraudAgent(evidence)
      [] agent_name = "compliance_agent" -> ComplianceAgent(evidence)
      [] agent_name = "risk_agent" -> RiskAgent(evidence)

(* An AgentRecommendation: the agent's name and its recommendation data.   *)
AgentRecommendation(agent_name, data) ==
    [agent_name |-> agent_name, action |-> data.action,
     confidence |-> data.confidence, risk_score |-> data.risk_score,
     risk_flags |-> data.risk_flags]

NoRecommendation == AgentRecommendation("none", RecommendationData("none", 0, 0, <<>>))

(* The exception a task ends with when _run_agent lets it through.         *)
Raised(agent_name) ==
    AgentRecommendation(agent_name, RecommendationData("exception", 0, 0, <<>>))

(* What analyze does in a run: it returns, raises, or never returns.       *)
Outcomes == {"ok", "raise", "hang"}

(* _run_agent without its try/except.                                      *)
run_agent_unguarded(agent_name, evidence, outcome) ==
    IF outcome = "raise" THEN Raised(agent_name)
    ELSE AgentRecommendation(agent_name, analyze(agent_name, evidence))

(* _run_agent, once analyze has returned or raised.                        *)
run_agent(agent_name, evidence, outcome) ==
    IF outcome = "raise"
    THEN AgentRecommendation(agent_name,
             RecommendationData("manual_review", 0, 100, <<"agent_error">>))
    ELSE AgentRecommendation(agent_name, analyze(agent_name, evidence))

(* asyncio.gather in the order the tasks finish.                           *)
gather_as_completed(tasks, finished) ==
    [i \in DOMAIN finished |-> tasks[finished[i]].rec]

(* asyncio.gather: the results in the order of the awaitables, whatever    *)
(* the order the tasks finished in.                                        *)
gather(tasks, finished) == [i \in DOMAIN tasks |-> tasks[i].rec]

(* One run_all_agents call: its argument, what each analyze will do, the   *)
(* tasks, the order they finished in, and the list returned.               *)
NoRun ==
    [pc |-> "none", evidence |-> MockEvidence, outcome |-> [a \in Agents |-> "ok"],
     tasks |-> [a \in Agents |-> [pc |-> "none", rec |-> NoRecommendation]],
     finished |-> <<>>, result |-> <<>>]

(***************************************************************************)
(* AgentOrchestrator: the voting strategies.  Weights are in tenths (1.0   *)
(* is 10); a vote's confidence is per mille, and the confidence of the     *)
(* ensemble is in millionths: the quotient of the sums, cut to the         *)
(* millionth.  With a total weight below 100.0 the cut never moves the     *)
(* quotient across a per-mille literal.  A Python list whose order comes   *)
(* from iterating a set is kept as the number of times each element        *)
(* occurs in it.                                                           *)
(***************************************************************************)
RECURSIVE Sum(_)
Sum(seq) == IF seq = <<>> THEN 0 ELSE Head(seq) + Sum(Tail(seq))

(* The voting_strategy.config of the mock KYC policy, and a config that    *)
(* leaves every key to its default.                                        *)
KycConfig ==
    [agent_weights |-> [a \in {"compliance_agent", "identity_agent",
                               "fraud_agent", "risk_agent"} |->
                            CASE a = "compliance_agent" -> 20
                              [] a = "identity_agent" -> 10
                              [] a = "fraud_agent" -> 10
                              [] a = "risk_agent" -> 15],
     high_risk_threshold |-> 70, low_risk_threshold |-> 30]

DefaultConfig ==
    [agent_weights |-> <<>>, high_risk_threshold |-> 70, low_risk_threshold |-> 30]

(* agent_weights.get(rec.agent_name, 1.0)                                  *)
agent_weight(config, agent_name) ==
    IF agent_name \in DOMAIN config.agent_weights
    THEN config.agent_weights[agent_name] ELSE 10

(* _aggregate_risk with the flags appended to a list instead of a set.     *)
aggregate_risk_appending(recommendations) ==
    LET risk_scores == {recommendations[i].risk_score : i \in DOMAIN recommendations}
                       \ {Null}
        all == UNION {{<<i, j>> : j \in DOMAIN recommendations[i].risk_flags} :
                      i \in DOMAIN recommendations}
        flags == {recommendations[p[1]].risk_flags[p[2]] : p \in all}
    IN  [risk_score |-> IF risk_scores = {} THEN 50
                        ELSE CHOOSE m \in risk_scores : \A r \in risk_scores : r <= m,
         risk_flags |-> [f \in flags |->
                            Cardinality({p \in all :
                                recommendations[p[1]].risk_flags[p[2]] = f})]]

(* _aggregate_risk: the greatest risk_score that is not None (50 if there  *)
(* is none), and list(set of every flag).                                  *)
aggregate_risk(recommendations) ==
    LET risk_scores == {recommendations[i].risk_score : i \in DOMAIN recommendations}
                       \ {Null}
        risk_flags == UNION {{recommendations[i].risk_flags[j] :
                                 j \in DOMAIN recommendations[i].risk_flags} :
                             i \in DOMAIN recommendations}
    IN  [risk_score |-> IF risk_scores = {} THEN 50
                        ELSE CHOOSE m \in risk_scores : \A r \in risk_scores : r <= m,
         risk_flags |-> [f \in risk_flags |-> 1]]

(* The votes prepended to the list instead of appended.                    *)
agent_votes_of_prepending(recommendations, config) ==
    LET n == Len(recommendations)
    IN  [i \in DOMAIN recommendations |->
            [agent |-> recommendations[n + 1 - i].agent_name,
             action |-> recommendations[n + 1 - i].action,
             confidence |-> recommendations[n + 1 - i].confidence,
             weight |-> agent_weight(config, recommendations[n + 1 - i].agent_name)]]

(* The votes of a list of recommendations, and what the loops accumulate.  *)
agent_votes_of(recommendations, config) ==
    [i \in DOMAIN recommendations |->
        [agent |-> recommendations[i].agent_name,
         action |-> recommendations[i].action,
         confidence |-> recommendations[i].confidence,
         weight |-> agent_weight(config, recommendations[i].agent_name)]]

actions_of(agent_votes) == {agent_votes[i].action : i \in DOMAIN agent_votes}

action_weight(agent_votes, action) ==
    Sum([i \in DOMAIN agent_votes |->
            IF agent_votes[i].action = action THEN agent_votes[i].weight ELSE 0])

action_count(agent_votes, action) ==
    Cardinality({i \in DOMAIN agent_votes : agent_votes[i].action = action})

(* A dict keyed by action is in the order the actions were first seen.     *)
first_seen(agent_votes, action) ==
    CHOOSE i \in DOMAIN agent_votes :
        /\ agent_votes[i].action = action
        /\ \A j \in DOMAIN agent_votes : agent_votes[j].action = action => i <= j

(* The dicts the loops fill, keyed by the actions seen.                     *)
action_weights(agent_votes) ==
    [a \in actions_of(agent_votes) |-> action_weight(agent_votes, a)]

action_counts(agent_votes) ==
    [a \in actions_of(agent_votes) |-> action_count(agent_votes, a)]

(* max(d.items(), key=lambda x: x[1])[0]: the first key, in dict order, of *)
(* the greatest value.                                                     *)
dict_max(agent_votes, d) ==
    CHOOSE a \in DOMAIN d :
        \A b \in DOMAIN d :
            \/ d[a] > d[b]
            \/ /\ d[a] = d[b]
               /\ first_seen(agent_votes, a) <= first_seen(agent_votes, b)

(* A per-mille confidence in millionths.                                   *)
Millionths == 1000

(* The weighted confidence rounded down to the per mille.                  *)
weighted_confidence_cut(agent_votes) ==
    LET total_weight == Sum([i \in DOMAIN agent_votes |-> agent_votes[i].weight])
        weighted_confidence ==
            Sum([i \in DOMAIN agent_votes |->
                    agent_votes[i].confidence * agent_votes[i].weight])
    IN  IF total_weight > 0 THEN (weighted_confidence \div total_weight) * Millionths
        ELSE 0

weighted_confidence_of(agent_votes) ==
    LET total_weight == Sum([i \in DOMAIN agent_votes |-> agent_votes[i].weight])
        weighted_confidence ==
            Sum([i \in DOMAIN agent_votes |->
                    agent_votes[i].confidence * agent_votes[i].weight])
    IN  IF total_weight > 0 THEN (weighted_confidence * Millionths) \div total_weight
        ELSE 0

VotingDetails(agent_votes, weighted_confidence, consensus_level) ==
    [approve_votes |-> action_count(agent_votes, "approve"),
     reject_votes |-> action_count(agent_votes, "reject"),
     manual_review_votes |-> action_count(agent_votes, "manual_review"),
     escalate_votes |-> action_count(agent_votes, "escalate"),
     weighted_confidence |-> weighted_confidence,
     consensus_level |-> consensus_level]

(* _calculate_voting_details: the consensus label from the action weights. *)
calculate_consensus(agent_votes) ==
    LET total_votes == Sum([i \in DOMAIN agent_votes |-> agent_votes[i].weight])
        max_votes == action_weight(agent_votes, dict_max(agent_votes, action_weights(agent_votes)))
    IN  IF max_votes = total_votes THEN "unanimous"
        ELSE IF max_votes * 10 > total_votes * 7 THEN "strong_majority"
        ELSE IF max_votes * 10 > total_votes * 5 THEN "majority"
        ELSE "divided"

(* The result of a strategy: it raised, or the votes and the final         *)
(* recommendation.                                                         *)
NoEnsemble ==
    [raised |-> FALSE, agent_votes |-> <<>>, action |-> "none", confidence |-> 0,
     risk_score |-> 0, risk_flags |-> <<>>,
     voting_details |-> VotingDetails(<<>>, 0, "none")]

VotingRaised == [NoEnsemble EXCEPT !.raised = TRUE]

Ensemble(agent_votes, action, confidence, risk, consensus_level) ==
    [raised |-> FALSE, agent_votes |-> agent_votes, action |-> action,
     confidence |-> confidence, risk_score |-> risk.risk_score,
     risk_flags |-> risk.risk_flags,
     voting_details |-> VotingDetails(agent_votes, confidence, consensus_level)]

(* _weighted_voting; max() of an empty dict raises.                        *)
weighted_voting(recommendations, config) ==
    LET agent_votes == agent_votes_of(recommendations, config)
    IN  IF recommendations = <<>> THEN VotingRaised
        ELSE Ensemble(agent_votes, dict_max(agent_votes, action_weights(agent_votes)),
                      weighted_confidence_of(agent_votes),
                      aggregate_risk(recommendations),
                      calculate_consensus(agent_votes))

(* _conservative_voting: the first recommendation of the greatest          *)
(* action_priority; with no recommendation most_restrictive stays None and *)
(* reading it raises.                                                      *)
action_priority(action) ==
    CASE action = "reject" -> 4
      [] action = "escalate" -> 3
      [] action = "manual_review" -> 2
      [] action = "request_more_info" -> 2
      [] action = "approve" -> 1
      [] OTHER -> 0

conservative_voting(recommendations, config) ==
    LET agent_votes == [i \in DOMAIN recommendations |->
                           [agent |-> recommendations[i].agent_name,
                            action |-> recommendations[i].action,
                            confidence |-> recommendations[i].confidence,
                            weight |-> 10]]
        most_restrictive ==
            CHOOSE i \in DOMAIN recommendations :
                \A j \in DOMAIN recommendations :
                    \/ action_priority(recommendations[i].action)
                           > action_priority(recommendations[j].action)
                    \/ /\ action_priority(recommendations[i].action)
                              = action_priority(recommendations[j].action)
                       /\ i <= j
    IN  IF recommendations = <<>> THEN VotingRaised
        ELSE Ensemble(agent_votes, recommendations[most_restrictive].action,
                      recommendations[most_restrictive].confidence * Millionths,
                      aggregate_risk(recommendations), "conservative")

(* The consensus requirement with the high-risk test strict.               *)
consensus_required_above(risk_score, config) ==
    IF risk_score > config.high_risk_threshold THEN "unanimous"
    ELSE IF risk_score <= config.low_risk_threshold THEN "majority"
    ELSE "weighted"

(* _risk_weighted_voting with the medium-risk branch counting votes, as    *)
(* the low-risk branch does.                                               *)
risk_weighted_voting_counting(recommendations, config) ==
    LET risk == aggregate_risk(recommendations)
        agent_votes == agent_votes_of(recommendations, config)
        final_confidence == weighted_confidence_of(agent_votes)
    IN  IF risk.risk_score >= config.high_risk_threshold
        THEN IF action_count(agent_votes, "approve") = Len(recommendations)
             THEN Ensemble(agent_votes, "approve", final_confidence, risk, "unanimous")
             ELSE Ensemble(agent_votes, "manual_review", final_confidence, risk,
                           "not_unanimous")
        ELSE IF recommendations = <<>> THEN VotingRaised
        ELSE Ensemble(agent_votes, dict_max(agent_votes, action_counts(agent_votes)),
                      final_confidence, risk, "majority")

(* _risk_weighted_voting: the consensus requirement from the aggregate     *)
(* risk, then the final action.                                            *)
consensus_required(risk_score, config) ==
    IF risk_score >= config.high_risk_threshold THEN "unanimous"
    ELSE IF risk_score <= config.low_risk_threshold THEN "majority"
    ELSE "weighted"

risk_weighted_voting(recommendations, config) ==
    LET risk == aggregate_risk(recommendations)
        required == consensus_required(risk.risk_score, config)
        agent_votes == agent_votes_of(recommendations, config)
        final_confidence == weighted_confidence_of(agent_votes)
    IN  IF required = "unanimous"
        THEN IF action_count(agent_votes, "approve") = Len(recommendations)
             THEN Ensemble(agent_votes, "approve", final_confidence, risk, "unanimous")
             ELSE Ensemble(agent_votes, "manual_review", final_confidence, risk,
                           "not_unanimous")
        ELSE IF recommendations = <<>> THEN VotingRaised
        ELSE IF required = "majority"
        THEN Ensemble(agent_votes, dict_max(agent_votes, action_counts(agent_votes)),
                      final_confidence, risk, "majority")
        ELSE Ensemble(agent_votes, dict_max(agent_votes, action_weights(agent_votes)),
                      final_confidence, risk, "weighted")

(* synthesize_ensemble: the strategy named by the policy.                  *)
Strategies == {"weighted", "conservative", "risk_weighted"}

synthesize_ensemble(strategy_type, agent_recommendations, strategy_config) ==
    CASE strategy_type = "weighted" ->
             weighted_voting(agent_recommendations, strategy_config)
      [] strategy_type = "conservative" ->
             conservative_voting(agent_recommendations, strategy_config)
      [] strategy_type = "risk_weighted" ->
             risk_weighted_voting(agent_recommendations, strategy_config)
      [] OTHER -> VotingRaised

(* One synthesize_ensemble call: its arguments and its result.             *)
NoVote ==
    [strategy |-> "none", config |-> DefaultConfig, recs |-> <<>>, done |-> FALSE,
     ensemble |-> NoEnsemble]

(***************************************************************************)
(* process_case, steps 1 to 5 with the collaborators themselves.           *)
(* extract_all_evidence returns the same evidence list for every case, or  *)
(* raises; run_all_agents starts the four tasks and awaits them (pc "agents");     *)
(* when they are done synthesize_ensemble takes the voting strategy of the *)
(* policy, evaluate_rules gives the rule match and _execute_decision       *)
(* starts the transition.  An agent's analyze returns or raises.           *)
(***************************************************************************)
voting_strategy(pol) ==
    IF pol.policy_id = KycPolicy.policy_id
    THEN [type |-> "risk_weighted", config |-> KycConfig]
    ELSE [type |-> "weighted", config |-> DefaultConfig]

extract_all_evidence(case_id) == evidence_store

(* The sets of agents whose analyze raises in a run.                       *)
FailureSets == {{}, {2}, {1, 3}, Agents}

run_all_agents(evidence, errors) ==
    [a \in Agents |->
        run_agent(AgentNames[a], evidence, IF a \in errors THEN "raise" ELSE "ok")]

RunAgents(w) ==
    /\ workers[w].pc = "pipeline"
    /\ workers' = [workers EXCEPT ![w].pc = "agents", ![w].evidence = "collected"]
    /\ UNCHANGED <<cases, audit, writes, queue, opCount, pool, policy, guard, run, vote,
                   evidence_store, eval, trail>>

(* Step 1 raises: the await of extract_all_evidence is inside the try, so  *)
(* the except branch of process_case is next and steps 2 to 5 are skipped. *)
EvidenceFails(w) ==
    /\ workers[w].pc = "pipeline"
    /\ workers' = [workers EXCEPT ![w] = raise([workers[w] EXCEPT !.evidence = "failed"])]
    /\ UNCHANGED <<cases, audit, writes, queue, opCount, pool, policy, guard, run, vote,
                   evidence_store, eval, trail>>

AgentsDone(w) ==
    /\ workers[w].pc = "agents"
    /\ \E errors \in FailureSets :
          LET wr == workers[w]
              case == [cases[wr.case_id] EXCEPT !.status = wr.case]
              evidence == extract_all_evidence(wr.case_id)
              agent_recommendations == run_all_agents(evidence, errors)
              pol == get_policy
              ensemble == synthesize_ensemble(voting_strategy(pol).type,
                              agent_recommendations, voting_strategy(pol).config)
              rule_match == evaluate_rules(pol, case, ensemble)
              ran == [wr EXCEPT !.agent_errors = errors,
                                !.ensemble = [action |-> ensemble.action,
                                              risk_score |-> ensemble.risk_score],
                                !.rule = rule_match.name]
          IN  workers' = [workers EXCEPT ![w] =
                  IF ensemble.raised THEN raise([wr EXCEPT !.agent_errors = errors])
                  ELSE IF rule_match = NoMatch THEN raise(ran)
                  ELSE execute_decision(ran, rule_match)]
    /\ UNCHANGED <<cases, audit, writes, queue, opCount, pool, policy, guard, run, vote,
                   evidence_store, eval, trail>>

(* The task of process_case is cancelled while it awaits the agents:       *)
(* CancelledError caught as an Exception.                                  *)
CancelCaught(w) ==
    /\ workers[w].pc = "agents"
    /\ workers' = [workers EXCEPT ![w] = raise([workers[w] EXCEPT !.result = "cancelled"])]
    /\ UNCHANGED <<cases, audit, writes, queue, opCount, pool, policy, guard, run, vote,
                   evidence_store, eval, trail>>

(* The task of process_case is cancelled while it awaits the agents:       *)
(* CancelledError is a BaseException, `except Exception` of _run_agent and *)
(* of process_case let it through, and the request ends with it.           *)
Cancel(w) ==
    /\ workers[w].pc = "agents"
    /\ workers' = [workers EXCEPT ![w] = Finished(workers[w], "cancelled", "none", "none")]
    /\ UNCHANGED <<cases, audit, writes, queue, opCount, pool, policy, guard, run, vote,
                   evidence_store, eval, trail>>

(***************************************************************************)
(* One evaluate_rules call and one _evaluate_condition call: the           *)
(* arguments and the results.                                              *)
(***************************************************************************)
NoEval ==
    [pc |-> "none", rules |-> <<>>,
     case |-> [priority |-> "none", vertical |-> "none", status |-> "none"],
     ensemble |-> [confidence |-> 0, risk_score |-> 0, risk_flags |-> {},
                   action |-> "none"],
     condition |-> Star, match |-> NoMatch, holds |-> FALSE]

(***************************************************************************)
(* The audit service on its own, for one case: the events log_event has    *)
(* built and returned, in call order (events), the rows of the audit       *)
(* table (table), the clock, and the replay_case calls made, each with the *)
(* number of events logged before it (at) and what it returned.            *)
(***************************************************************************)
NoTrail ==
    [case_id |-> 0, events |-> <<>>, table |-> <<>>, clock |-> 0, replay |-> <<>>]

(* The events of the life of an approved case, as log_event is handed      *)
(* them: the event_type and the to_state of the transition.                *)
Lifecycle ==
    << [event_type |-> "case.created", to_state |-> "none"],
       [event_type |-> "state_transition", to_state |-> "submitted"],
       [event_type |-> "state_transition", to_state |-> "processing"],
       [event_type |-> "ensemble_stored", to_state |-> "none"],
       [event_type |-> "state_transition", to_state |-> "approved"] >>

(* _generate_id: the start of a random uuid4; the ids it can give, here    *)
(* without those in use (a collision is left out).                         *)
IdSpace == 1..Len(Lifecycle)

generate_id(events) == IdSpace \ {events[i].event_id : i \in DOMAIN events}

(* _save_event is `pass`: the table is as it was.                          *)
save_event(table, event) == table

(* get_case_history returns [] whatever the case.                          *)
get_case_history(case_id) == <<>>

(* replay_case: the state is {} and the count is that of the history.      *)
replay_case(case_id) ==
    LET events == get_case_history(case_id)
    IN  [case_id |-> case_id, reconstructed_state |-> "none",
         event_count |-> Len(events)]

(* log_event: the id, the reading of the clock (which has advanced or      *)
(* not since the last event), the event built and saved.                   *)
LogEvent ==
    /\ trail.case_id # 0
    /\ Len(trail.events) < Len(Lifecycle)
    /\ \E event_id \in generate_id(trail.events), elapsed \in {0, 1} :
          LET next == Lifecycle[Len(trail.events) + 1]
              event == [event_id |-> event_id, case_id |-> trail.case_id,
                        timestamp |-> trail.clock + elapsed,
                        event_type |-> next.event_type, to_state |-> next.to_state]
          IN  trail' = [trail EXCEPT !.events = Append(@, event),
                                     !.table = save_event(@, event),
                                     !.clock = @ + elapsed]
    /\ UNCHANGED <<cases, audit, writes, queue, workers, pool, opCount, policy, guard,
                   run, vote, evidence_store, eval>>

ReplayCase ==
    /\ trail.case_id # 0
    /\ Len(trail.replay) < 2
    /\ trail' = [trail EXCEPT !.replay =
           Append(@, [at |-> Len(trail.events), result |-> replay_case(trail.case_id)])]
    /\ UNCHANGED <<cases, audit, writes, queue, workers, pool, opCount, policy, guard,
                   run, vote, evidence_store, eval>>

(***************************************************************************)
(* The guard as a function of its arguments: the record holds one call.    *)
(***************************************************************************)
NoGuard ==
    [state_machine |-> <<>>, from_state |-> "none", to_state |-> "none",
     actor |-> "none", done |-> FALSE, key |-> NoKey, allowed |-> FALSE]

(* The callers of submit_case and review_case (main.py passes an API actor *)
(* to submit and a HUMAN actor to review), and the actions a review        *)
(* decision can carry, one of them outside status_map.                     *)
Callers == {"human", "api"}

ReviewActions == {"approve", "reject", "request_more_info", "escalate"}

Init ==
    /\ cases = [c \in CaseIds |-> NoCase]
    /\ audit = <<>>
    /\ writes = <<>>
    /\ queue = <<>>
    /\ workers = [w \in Workers |-> Idle]
    /\ pool = {1}
    /\ opCount = 0
    /\ policy \in PolicyStore
    /\ guard = NoGuard
    /\ run = NoRun
    /\ vote = NoVote
    /\ evidence_store = MockEvidence
    /\ eval = NoEval
    /\ trail = NoTrail

Next ==
    \/ \E w \in Workers, vertical \in Verticals : CreateCase(w, vertical)
    \/ \E w \in Workers, c \in CaseIds, actor \in Callers : SubmitCase(w, c, actor)
    \/ \E w \in Workers, c \in CaseIds : ProcessCase(w, c)
    \/ \E w \in Workers, c \in CaseIds, reviewer \in Callers, action \in ReviewActions :
           ReviewCase(w, c, reviewer, action)
    \/ \E w \in Workers : SubmitProcess(w)
    \/ \E w \in Workers : TransitionLog(w)
    \/ \E w \in Workers : TransitionWrite(w)
    \/ \E w \in Workers : Pipeline(w)
    \/ \E w \in Workers : QueueAssignment(w)
    \/ \E w \in Workers : ProcessingFailed(w)

Spec == Init /\ [][Next]_vars

(***************************************************************************)
(* The service on a cases table whose rows are already there: a row is     *)
(* bound to the policy id in force when it was inserted, and its nullable  *)
(* sla_deadline column holds a deadline.                                   *)
(***************************************************************************)
StoredRows ==
    { [status |-> "draft", vertical |-> "kyc", priority |-> "normal",
       policy_version |-> "pol_kyc_v0", sla_deadline |-> "set"] }

StoredInit ==
    /\ cases \in [CaseIds -> StoredRows]
    /\ audit = <<>>
    /\ writes = <<>>
    /\ queue = <<>>
    /\ workers = [w \in Workers |-> Idle]
    /\ pool = {1}
    /\ opCount = 0
    /\ policy \in PolicyStore
    /\ guard = NoGuard
    /\ run = NoRun
    /\ vote = NoVote
    /\ evidence_store = MockEvidence
    /\ eval = NoEval
    /\ trail = NoTrail

SpecStored == StoredInit /\ [][Next]_vars

(***************************************************************************)
(* The guard on its own: every state machine below, every pair of          *)
(* statuses and every actor type, one call of is_transition_allowed each.  *)
(***************************************************************************)
WildcardStateMachine ==
    (<<"draft", "submitted">> :> {"api"}) @@
    (<<"processing", "*">> :> {"system"}) @@
    (<<"*", "rejected">> :> {"reviewer"}) @@
    (<<"under_review.*", "approved">> :> {"reviewer"}) @@
    (<<"processing", "rejected">> :> {"workflow_engine"}) @@
    (<<"needs_more_info", "submitted">> :> {})

GuardMachines == {KycStateMachine, ExactStateMachine, WildcardStateMachine}

GuardInit ==
    /\ cases = [c \in CaseIds |-> NoCase]
    /\ audit = <<>>
    /\ writes = <<>>
    /\ queue = <<>>
    /\ workers = [w \in Workers |-> Idle]
    /\ pool = {}
    /\ opCount = 0
    /\ policy = KycPolicy
    /\ guard \in [state_machine : GuardMachines, from_state : CaseStatus,
                  to_state : CaseStatus, actor : ActorType, done : {FALSE},
                  key : {NoKey}, allowed : {FALSE}]
    /\ run = NoRun
    /\ vote = NoVote
    /\ evidence_store = MockEvidence
    /\ eval = NoEval
    /\ trail = NoTrail

GuardEval ==
    /\ guard.from_state # "none"
    /\ ~guard.done
    /\ guard' = [guard EXCEPT
           !.done = TRUE,
           !.key = matched_key(guard.state_machine, guard.from_state, guard.to_state),
           !.allowed = is_transition_allowed(guard.state_machine, guard.from_state,
                                             guard.to_state, guard.actor)]
    /\ UNCHANGED <<cases, audit, writes, queue, workers, pool, opCount, policy, run, vote,
                 evidence_store, eval, trail>>

GuardNext == GuardEval

SpecGuard == GuardInit /\ [][GuardNext]_vars

(***************************************************************************)
(* run_all_agents on its own: every evidence sample and every way the four *)
(* analyze calls can end.  Each _run_agent task is started, awaits its     *)
(* agent, and finishes when analyze returns or raises; the tasks finish in *)
(* any order.  gather resumes the caller when every task is done, or with  *)
(* the exception of a task that let one through.                           *)
(***************************************************************************)
RunInit ==
    /\ cases = [c \in CaseIds |-> NoCase]
    /\ audit = <<>>
    /\ writes = <<>>
    /\ queue = <<>>
    /\ workers = [w \in Workers |-> Idle]
    /\ pool = {}
    /\ opCount = 0
    /\ policy = KycPolicy
    /\ guard = NoGuard
    /\ vote = NoVote
    /\ evidence_store = MockEvidence
    /\ eval = NoEval
    /\ trail = NoTrail
    /\ run \in [pc : {"called"}, evidence : EvidenceSamples,
                outcome : [Agents -> Outcomes],
                tasks : {[a \in Agents |-> [pc |-> "none", rec |-> NoRecommendation]]},
                finished : {<<>>}, result : {<<>>}]

RunAllAgents ==
    /\ run.pc = "called"
    /\ run' = [run EXCEPT
           !.pc = "gather",
           !.tasks = [a \in Agents |-> [pc |-> "pending", rec |-> NoRecommendation]]]
    /\ UNCHANGED <<cases, audit, writes, queue, workers, pool, opCount, policy, guard, vote,
                 evidence_store, eval, trail>>

AgentCalled(a) ==
    /\ run.pc = "gather"
    /\ run.tasks[a].pc = "pending"
    /\ run' = [run EXCEPT !.tasks[a].pc = "analyze"]
    /\ UNCHANGED <<cases, audit, writes, queue, workers, pool, opCount, policy, guard, vote,
                 evidence_store, eval, trail>>

AgentDone(a) ==
    /\ run.pc = "gather"
    /\ run.tasks[a].pc = "analyze"
    /\ run.outcome[a] # "hang"
    /\ run' = [run EXCEPT
           !.tasks[a] = [pc |-> "done",
                         rec |-> run_agent(AgentNames[a], run.evidence, run.outcome[a])],
           !.finished = Append(@, a)]
    /\ UNCHANGED <<cases, audit, writes, queue, workers, pool, opCount, policy, guard, vote,
                 evidence_store, eval, trail>>

Gather ==
    /\ run.pc = "gather"
    /\ LET let_through == {a \in Agents : /\ run.tasks[a].pc = "done"
                                          /\ run.tasks[a].rec.action = "exception"}
       IN  IF let_through # {}
           THEN run' = [run EXCEPT !.pc = "raised"]
           ELSE /\ \A a \in Agents : run.tasks[a].pc = "done"
                /\ run' = [run EXCEPT !.pc = "returned",
                                      !.result = gather(run.tasks, run.finished)]
    /\ UNCHANGED <<cases, audit, writes, queue, workers, pool, opCount, policy, guard, vote,
                 evidence_store, eval, trail>>

RunNext ==
    \/ RunAllAgents
    \/ \E a \in Agents : AgentCalled(a)
    \/ \E a \in Agents : AgentDone(a)
    \/ Gather

SpecRun == RunInit /\ [][RunNext]_vars

(* The event loop runs every task that can run.                            *)
SpecRunFair == RunInit /\ [][RunNext]_vars /\ WF_vars(RunNext)

(***************************************************************************)
(* synthesize_ensemble on its own: every strategy, both configs and every  *)
(* list of up to MaxRecs of the recommendations below (among them the      *)
(* substitute of a failed agent, a recommendation without risk_score and   *)
(* one whose flag list repeats a flag).                                    *)
(***************************************************************************)
RecSamples ==
    { AgentRecommendation("identity_agent", RecommendationData("approve", 940, 0, <<>>)),
      AgentRecommendation("identity_agent",
          RecommendationData("reject", 940, 50, <<"id_expired">>)),
      AgentRecommendation("fraud_agent",
          RecommendationData("request_more_info", 600, Null, <<>>)),
      AgentRecommendation("fraud_agent",
          RecommendationData("manual_review", 0, 100, <<"agent_error">>)),
      AgentRecommendation("compliance_agent",
          RecommendationData("manual_review", 700, 70, <<"potential_sanctions_match">>)),
      AgentRecommendation("compliance_agent",
          RecommendationData("escalate", 990, 100, <<"sanctions_hit">>)),
      AgentRecommendation("risk_agent",
          RecommendationData("approve", 900, 23,
                             <<"address_unverified", "address_unverified">>)),
      AgentRecommendation("risk_agent",
          RecommendationData("escalate", 900, 100, <<"sanctions_hit">>)) }

RecLists == UNION {[1..n -> RecSamples] : n \in 0..MaxRecs}

VoteConfigs == {DefaultConfig, KycConfig}

VoteInit ==
    /\ cases = [c \in CaseIds |-> NoCase]
    /\ audit = <<>>
    /\ writes = <<>>
    /\ queue = <<>>
    /\ workers = [w \in Workers |-> Idle]
    /\ pool = {}
    /\ opCount = 0
    /\ policy = KycPolicy
    /\ guard = NoGuard
    /\ run = NoRun
    /\ vote \in [strategy : Strategies, config : VoteConfigs, recs : RecLists,
                 done : {FALSE}, ensemble : {NoEnsemble}]
    /\ evidence_store = MockEvidence
    /\ eval = NoEval
    /\ trail = NoTrail

SynthesizeEnsemble ==
    /\ vote.strategy # "none"
    /\ ~vote.done
    /\ vote' = [vote EXCEPT
           !.done = TRUE,
           !.ensemble = synthesize_ensemble(vote.strategy, vote.recs, vote.config)]
    /\ UNCHANGED <<cases, audit, writes, queue, workers, pool, opCount, policy, guard, run,
                 evidence_store, eval, trail>>

VoteNext == SynthesizeEnsemble

SpecVote == VoteInit /\ [][VoteNext]_vars

(***************************************************************************)
(* process_case on submitted cases, with the agents, the voter and the     *)
(* rules of the KYC policy, for every evidence sample.                     *)
(***************************************************************************)
SubmittedRows ==
    { [status |-> "submitted", vertical |-> "kyc", priority |-> "normal",
       policy_version |-> "pol_kyc_v1", sla_deadline |-> "null"] }

ProcInit ==
    /\ cases \in [CaseIds -> SubmittedRows]
    /\ audit = <<>>
    /\ writes = <<>>
    /\ queue = <<>>
    /\ workers = [w \in Workers |-> Idle]
    /\ pool = {1}
    /\ opCount = 0
    /\ policy = KycPolicy
    /\ guard = NoGuard
    /\ run = NoRun
    /\ vote = NoVote
    /\ evidence_store \in EvidenceSamples
    /\ eval = NoEval
    /\ trail = NoTrail

ProcNext ==
    \/ \E w \in Workers, c \in CaseIds : ProcessCase(w, c)
    \/ \E w \in Workers : TransitionLog(w)
    \/ \E w \in Workers : TransitionWrite(w)
    \/ \E w \in Workers : EvidenceFails(w)
    \/ \E w \in Workers : RunAgents(w)
    \/ \E w \in Workers : AgentsDone(w)
    \/ \E w \in Workers : Cancel(w)
    \/ \E w \in Workers : QueueAssignment(w)
    \/ \E w \in Workers : ProcessingFailed(w)

SpecProcess == ProcInit /\ [][ProcNext]_vars

(***************************************************************************)
(* The same with two request tasks, each making one process_case call:     *)
(* the two calls interleave at every await.                                *)
(***************************************************************************)
ConcInit ==
    /\ cases \in [CaseIds -> SubmittedRows]
    /\ audit = <<>>
    /\ writes = <<>>
    /\ queue = <<>>
    /\ workers = [w \in Workers |-> Idle]
    /\ pool = Workers
    /\ opCount = 0
    /\ policy = KycPolicy
    /\ guard = NoGuard
    /\ run = NoRun
    /\ vote = NoVote
    /\ evidence_store = MockEvidence
    /\ eval = NoEval
    /\ trail = NoTrail

ProcessCaseOnce(w, c) ==
    /\ workers[w].pc = "idle"
    /\ ProcessCase(w, c)

ConcNext ==
    \/ \E w \in Workers, c \in CaseIds : ProcessCaseOnce(w, c)
    \/ \E w \in Workers : TransitionLog(w)
    \/ \E w \in Workers : TransitionWrite(w)
    \/ \E w \in Workers : RunAgents(w)
    \/ \E w \in Workers : AgentsDone(w)
    \/ \E w \in Workers : Cancel(w)
    \/ \E w \in Workers : QueueAssignment(w)
    \/ \E w \in Workers : ProcessingFailed(w)

SpecConcurrent == ConcInit /\ [][ConcNext]_vars

(***************************************************************************)
(* The audit service on its own: the events of one case are logged in the  *)
(* order of its life, and replay_case is called at any point, twice at     *)
(* most.                                                                   *)
(***************************************************************************)
AuditInit ==
    /\ cases = [c \in CaseIds |-> NoCase]
    /\ audit = <<>>
    /\ writes = <<>>
    /\ queue = <<>>
    /\ workers = [w \in Workers |-> Idle]
    /\ pool = {}
    /\ opCount = 0
    /\ policy = KycPolicy
    /\ guard = NoGuard
    /\ run = NoRun
    /\ vote = NoVote
    /\ evidence_store = MockEvidence
    /\ eval = NoEval
    /\ trail \in [case_id : CaseIds, events : {<<>>}, table : {<<>>}, clock : {0},
                  replay : {<<>>}]

AuditNext ==
    \/ LogEvent
    \/ ReplayCase

SpecAudit == AuditInit /\ [][AuditNext]_vars

(***************************************************************************)
(* evaluate_rules and _evaluate_condition on their own.  The rules of a    *)
(* policy are listed in any order; the context is the one                  *)
(* _build_eval_context makes of a case and an ensemble recommendation; the *)
(* conditions are those of the policies and conditions of the rule DSL,    *)
(* among them paths the context does not hold.                             *)
(***************************************************************************)
DslRules ==
    << [priority |-> 5, name |-> "Not Sanctioned",
        condition |-> Dot(<<"compliance", "sanctions_screening", "status">>, "!=", "hit"),
        action |-> "approve", assignee_role |-> "none", sla_hours |-> 0],
       [priority |-> 5, name |-> "Recommended Approve",
        condition |-> Dot(<<"ensemble", "action">>, "==", "approve"),
        action |-> "approve", assignee_role |-> "none", sla_hours |-> 0],
       [priority |-> 7, name |-> "Fallback",
        condition |-> Star,
        action |-> "manual_review", assignee_role |-> "kyc_analyst", sla_hours |-> 24] >>

Reordered(rules) ==
    {[i \in DOMAIN rules |-> rules[p[i]]] : p \in Permutations(DOMAIN rules)}

RuleLists == Reordered(KycRules) \cup Reordered(ExactRules) \cup Reordered(DslRules)

ConditionSamples ==
    {rule.condition : rule \in {KycRules[i] : i \in DOMAIN KycRules}} \cup
    { Dot(<<"compliance", "sanctions_screening", "status">>, "!=", "hit"),
      Dot(<<"compliance", "sanctions_screening", "status">>, "==", "hit"),
      Dot(<<"ensemble", "region">>, "!=", "eu"),
      Dot(<<"ensemble", "action">>, "!=", "approve"),
      Dot(<<"ensemble", "action">>, "==", "approve"),
      Dot(<<"action">>, "==", "approve"),
      AndDsl(Dot(<<"ensemble", "confidence">>, ">", 950000),
             Dot(<<"ensemble", "risk_score">>, "<", 20)) }

(* Ensemble recommendations at and next to the literals of the rule "High  *)
(* Confidence Auto-Approve".                                               *)
BoundarySamples ==
    { [confidence |-> 950000, risk_score |-> 19, risk_flags |-> {}, action |-> "approve"],
      [confidence |-> 951000, risk_score |-> 19, risk_flags |-> {}, action |-> "approve"],
      [confidence |-> 960000, risk_score |-> 20, risk_flags |-> {}, action |-> "approve"] }

CaseSamples ==
    { [priority |-> "normal", vertical |-> "kyc", status |-> "processing"],
      [priority |-> "urgent", vertical |-> "kyc", status |-> "submitted"] }

EvalInit ==
    /\ cases = [c \in CaseIds |-> NoCase]
    /\ audit = <<>>
    /\ writes = <<>>
    /\ queue = <<>>
    /\ workers = [w \in Workers |-> Idle]
    /\ pool = {}
    /\ opCount = 0
    /\ policy = KycPolicy
    /\ guard = NoGuard
    /\ run = NoRun
    /\ vote = NoVote
    /\ evidence_store = MockEvidence
    /\ eval \in [pc : {"called"}, rules : RuleLists, case : CaseSamples,
                 ensemble : EnsembleSamples \cup BoundarySamples,
                 condition : ConditionSamples,
                 match : {NoMatch}, holds : {FALSE}]
    /\ trail = NoTrail

EvaluateRules ==
    /\ eval.pc = "called"
    /\ eval' = [eval EXCEPT
           !.pc = "rules_done",
           !.match = evaluate_rules([rules |-> eval.rules], eval.case, eval.ensemble)]
    /\ UNCHANGED <<cases, audit, writes, queue, workers, pool, opCount, policy, guard,
                   run, vote, evidence_store, trail>>

EvaluateCondition ==
    /\ eval.pc = "called"
    /\ eval' = [eval EXCEPT
           !.pc = "condition_done",
           !.holds = evaluate_condition(eval.condition,
                         build_eval_context(eval.case, eval.ensemble))]
    /\ UNCHANGED <<cases, audit, writes, queue, workers, pool, opCount, policy, guard,
                   run, vote, evidence_store, trail>>

EvalNext ==
    \/ EvaluateRules
    \/ EvaluateCondition

SpecEval == EvalInit /\ [][EvalNext]_vars

(***************************************************************************)
(* Properties.                                                             *)
(***************************************************************************)
Over(w) == workers[w].pc = "done"

Quiescent == \A w \in Workers : workers[w].pc \in {"idle", "done"}

(* The state_transition events and the status writes of one operation, in  *)
(* the order they were made.                                               *)
TransitionEvents(id) ==
    SelectSeq(audit, LAMBDA e : e.event_type = "state_transition" /\ e.op = id)

WritesOf(id) == SelectSeq(writes, LAMBDA x : x.op = id)

NoTrace(id) ==
    /\ \A i \in DOMAIN audit : audit[i].op # id
    /\ \A i \in DOMAIN writes : writes[i].op # id
    /\ \A i \in DOMAIN queue : queue[i].op # id

ManualReview == "under_review.manual_review"

(* The guard as section 4.1 words it: exact key, then the substate         *)
(* patterns, then "FROM -> *", then "* -> TO"; allowed iff the entry lists *)
(* the actor.                                                              *)
substate_pattern(s) ==
    IF s \in {"under_review.identity_check", "under_review.fraud_check",
              "under_review.compliance_check", "under_review.manual_review"}
    THEN "under_review.*" ELSE "none"

precedence_key(state_machine, from_state, to_state) ==
    LET candidates == << <<from_state, to_state>>,
                         <<substate_pattern(from_state), to_state>>,
                         <<from_state, substate_pattern(to_state)>>,
                         <<from_state, "*">>,
                         <<"*", to_state>> >>
        present == {i \in DOMAIN candidates : candidates[i] \in DOMAIN state_machine}
    IN  IF present = {} THEN NoKey
        ELSE candidates[CHOOSE i \in present : \A j \in present : i <= j]

precedence_allows(state_machine, from_state, to_state, actor) ==
    LET key == precedence_key(state_machine, from_state, to_state)
    IN  key # NoKey /\ actor_map(actor) \in state_machine[key]

(* C1: every committed status change (from s to t by actor a) is one the   *)
(* transition guard of the case's policy allows for (s, t, a), the steps   *)
(* made inside Process included.  The guard is taken in either reading,    *)
(* the code's or the precedence of section 4.1.                            *)
C1_EveryStatusChangeIsGuarded ==
    \A i \in DOMAIN writes :
        \/ is_transition_allowed(policy.state_machine, writes[i].from_state,
                                 writes[i].to_state, writes[i].actor)
        \/ precedence_allows(policy.state_machine, writes[i].from_state,
                             writes[i].to_state, writes[i].actor)

(* C2: when process_case returns, the case it returns is APPROVED,         *)
(* REJECTED or under manual review, never PROCESSING, whatever the action  *)
(* of the matched rule.                                                    *)
C2_ProcessEndsInTerminalOrReview ==
    \A w \in Workers :
        (Over(w) /\ workers[w].processed # "none") =>
            workers[w].processed \in {"approved", "rejected", ManualReview}

(* C3: a Process run in which a step raised after PROCESSING was entered   *)
(* returns normally; it has appended one case.processing_failed event and, *)
(* after it, a state_transition event to manual review, and its last       *)
(* status write is the one to manual review.                               *)
C3_FailureRoutesToManualReview ==
    \A w \in Workers :
        (Over(w) /\ workers[w].failed) =>
            LET id == workers[w].id
                mine == WritesOf(id)
            IN  /\ workers[w].result = "ok"
                /\ workers[w].processed = ManualReview
                /\ Cardinality({i \in DOMAIN audit :
                        /\ audit[i].op = id
                        /\ audit[i].event_type = "case.processing_failed"}) = 1
                /\ \E i, j \in DOMAIN audit :
                        /\ i < j
                        /\ audit[i].op = id
                        /\ audit[i].event_type = "case.processing_failed"
                        /\ audit[j].op = id
                        /\ audit[j].event_type = "state_transition"
                        /\ audit[j].to_state = ManualReview
                        /\ \A m \in DOMAIN audit : (audit[m].op = id) => m <= j
                /\ mine # <<>>
                /\ mine[Len(mine)].to_state = ManualReview

C3_Witness ==
    \E w \in Workers :
        /\ Over(w)
        /\ workers[w].failed
        /\ workers[w].processed = ManualReview
        /\ cases[workers[w].case_id].status = ManualReview

(* C4: under the default KYC state machine, a human reviewer's ReviewCase  *)
(* on a case under manual review succeeds and returns the case in the      *)
(* status mapped from the action.                                          *)
C4_ReviewMovesToMappedStatus ==
    \A w \in Workers :
        ( /\ Over(w)
          /\ workers[w].op = "review"
          /\ workers[w].actor = "human"
          /\ workers[w].seen = ManualReview
          /\ workers[w].action \in {"approve", "reject", "request_more_info"}
          /\ policy.state_machine = KycStateMachine ) =>
            /\ workers[w].result = "ok"
            /\ workers[w].ret = status_map(workers[w].action)

(* C5: the entry the guard reads is the one the precedence exact, substate *)
(* pattern, "FROM -> *", "* -> TO" selects.                                *)
C5_GuardSelectsByPrecedence ==
    guard.done =>
        guard.key = precedence_key(guard.state_machine, guard.from_state,
                                   guard.to_state)

(* C6: the guard allows the transition iff an entry matched and its        *)
(* allowed_actors contains the actor's policy name.                        *)
C6_GuardAllowsIffActorListed ==
    guard.done =>
        (guard.allowed <=>
            /\ guard.key # NoKey
            /\ actor_map(guard.actor) \in guard.state_machine[guard.key])

(* C7: a SubmitCase or ReviewCase whose transition the guard refuses ends  *)
(* with an error at once, having appended no audit event and written       *)
(* neither the case nor the queue.                                         *)
Target(wr) == IF wr.op = "submit" THEN "submitted" ELSE status_map(wr.action)

C7_RefusedLeavesNoTrace ==
    \A w \in Workers :
        ( /\ workers[w].op \in {"submit", "review"}
          /\ workers[w].seen # "none"
          /\ Target(workers[w]) # "none"
          /\ ~is_transition_allowed(policy.state_machine, workers[w].seen,
                                    Target(workers[w]), workers[w].actor) ) =>
            /\ Over(w)
            /\ workers[w].result = "refused"
            /\ NoTrace(workers[w].id)

C7_Witness ==
    \E w \in Workers :
        /\ Over(w)
        /\ workers[w].op = "review"
        /\ workers[w].action = "approve"
        /\ workers[w].seen = "draft"
        /\ workers[w].result = "refused"
        /\ cases[workers[w].case_id].status = "draft"

(* C8: SubmitCase on a case that has already been submitted returns the    *)
(* case as it is, without failing, and leaves no trace.                    *)
AlreadySubmitted == CaseStatus \ {"draft", "needs_more_info"}

Submitted(c) ==
    \E i \in DOMAIN writes : writes[i].case_id = c /\ writes[i].to_state = "submitted"

C8_ResubmitIsNoOp ==
    \A w \in Workers :
        ( /\ Over(w)
          /\ workers[w].op = "submit"
          /\ workers[w].actor = "api"
          /\ workers[w].seen \in AlreadySubmitted
          /\ Submitted(workers[w].case_id) ) =>
            /\ workers[w].result = "ok"
            /\ workers[w].ret = workers[w].seen
            /\ NoTrace(workers[w].id)

(* C9: every committed status write has its state_transition event already *)
(* in the audit log: the k-th write of an operation is recorded by the     *)
(* k-th state_transition event of that operation.                          *)
C9_AuditBeforeStatusWrite ==
    \A i \in DOMAIN writes :
        LET id == writes[i].op
            k == Cardinality({j \in 1..i : writes[j].op = id})
            events == TransitionEvents(id)
        IN  /\ Len(events) >= k
            /\ events[k].case_id = writes[i].case_id
            /\ events[k].to_state = writes[i].to_state
            /\ events[k].actor = writes[i].actor

C9_Witness ==
    /\ writes # <<>>
    /\ \E w \in Workers :
          /\ workers[w].pc = "tr_write"
          /\ Len(TransitionEvents(workers[w].id)) = Len(WritesOf(workers[w].id)) + 1

(* C10: once the operations are over, a case has as many state_transition  *)
(* events as committed status writes, the k-th event recording the k-th    *)
(* write's from and to.                                                    *)
C10_OneEventPerStatusChange ==
    Quiescent =>
        \A c \in CaseIds :
            LET events == SelectSeq(audit, LAMBDA e :
                              e.event_type = "state_transition" /\ e.case_id = c)
                changes == SelectSeq(writes, LAMBDA x : x.case_id = c)
            IN  /\ Len(events) = Len(changes)
                /\ \A k \in DOMAIN changes :
                       /\ events[k].from_state = changes[k].from_state
                       /\ events[k].to_state = changes[k].to_state

(* C11: a case whose status is terminal has a null sla_deadline, whatever  *)
(* the column held before the transition into the terminal status.         *)
C11_TerminalClearsSla ==
    \A c \in CaseIds :
        cases[c].status \in TerminalStatuses => cases[c].sla_deadline = "null"

Created(c) ==
    \E i \in DOMAIN audit :
        audit[i].case_id = c /\ audit[i].event_type = "case.created"

C11_Witness ==
    \E c \in CaseIds :
        /\ ~Created(c)
        /\ cases[c].status \in TerminalStatuses
        /\ \E i \in DOMAIN writes :
              writes[i].case_id = c /\ writes[i].to_state = cases[c].status

(* C12: no step of SubmitCase, Process or ReviewCase, successful or not,   *)
(* changes the policy_version of an existing case.                         *)
C12_PolicyVersionIsFixed ==
    [][\A c \in CaseIds :
          Exists(c) => cases'[c].policy_version = cases[c].policy_version]_vars

C12_Witness ==
    \E c \in CaseIds :
        /\ cases[c].policy_version = "pol_kyc_v0"
        /\ policy.policy_id # "pol_kyc_v0"
        /\ cases[c].status \in {"approved", "rejected", "processing"}
        /\ \E w \in Workers : Over(w) /\ workers[w].case_id = c
        /\ \E i \in DOMAIN writes : writes[i].case_id = c

(* C13: a CreateCase that ends with no_active_policy has created no case   *)
(* and appended no audit event; one that succeeds has inserted one DRAFT   *)
(* case bound to the active policy's id and appended one case.created      *)
(* event, the only one of that case.                                       *)
CreateEnds(w) ==
    /\ workers'[w] # workers[w]
    /\ workers'[w].op = "create"

C13_CreateCaseOutcome ==
    [][\A w \in Workers :
          CreateEnds(w) =>
              IF workers'[w].result = "no_active_policy"
              THEN cases' = cases /\ audit' = audit
              ELSE LET c == workers'[w].case_id
                   IN  /\ workers'[w].result = "ok"
                       /\ ~Exists(c)
                       /\ cases' = [cases EXCEPT ![c] = cases'[c]]
                       /\ cases'[c].status = "draft"
                       /\ cases'[c].policy_version = policy.policy_id
                       /\ Len(audit') = Len(audit) + 1
                       /\ SubSeq(audit', 1, Len(audit)) = audit
                       /\ Cardinality({i \in DOMAIN audit' :
                              /\ audit'[i].case_id = c
                              /\ audit'[i].event_type = "case.created"}) = 1]_vars

C13_Witness ==
    /\ \E w \in Workers :
          /\ Over(w)
          /\ workers[w].op = "create"
          /\ workers[w].result = "no_active_policy"
    /\ \E c \in CaseIds : cases[c].status = "draft" /\ Created(c)
    /\ Len(audit) = 1

(* C14: run_all_agents never fails because analyze calls raised, and the   *)
(* list it returns has one recommendation per registered agent: the        *)
(* substitute (MANUAL_REVIEW, confidence 0, risk_score 100, flag           *)
(* agent_error) for each agent that raised, and for every other agent the  *)
(* recommendation it makes of the evidence.                                *)
Substitute(agent_name) ==
    [agent_name |-> agent_name, action |-> "manual_review", confidence |-> 0,
     risk_score |-> 100, risk_flags |-> <<"agent_error">>]

Unfailed(agent_name, evidence) ==
    LET data == analyze(agent_name, evidence)
    IN  [agent_name |-> agent_name, action |-> data.action,
         confidence |-> data.confidence, risk_score |-> data.risk_score,
         risk_flags |-> data.risk_flags]

C14_FailedAgentsAreSubstituted ==
    /\ run.pc # "raised"
    /\ (run.pc = "gather" /\ \A a \in Agents : run.outcome[a] # "hang") =>
           \A a \in Agents : run.tasks[a].pc = "done" =>
               run.tasks[a].rec.action # "exception"
    /\ run.pc = "returned" =>
           /\ DOMAIN run.result = Agents
           /\ \A a \in Agents :
                  run.result[a] = IF run.outcome[a] = "raise"
                                  THEN Substitute(AgentNames[a])
                                  ELSE Unfailed(AgentNames[a], run.evidence)

C14_Witness ==
    /\ run.pc = "returned"
    /\ run.outcome[2] = "raise"
    /\ run.outcome[4] = "raise"
    /\ run.outcome[1] = "ok"
    /\ run.result[2].risk_flags = <<"agent_error">>
    /\ run.result[1].action = "approve"
    /\ run.result[3].action = "escalate"

(* C15: whatever order the agents finished in, the list run_all_agents     *)
(* returns is in registration order: identity, fraud, compliance, risk.    *)
C15_ResultInRegistrationOrder ==
    run.pc = "returned" =>
        /\ Len(run.result) = 4
        /\ run.result[1].agent_name = "identity_agent"
        /\ run.result[2].agent_name = "fraud_agent"
        /\ run.result[3].agent_name = "compliance_agent"
        /\ run.result[4].agent_name = "risk_agent"

C15_Witness ==
    /\ run.pc = "returned"
    /\ run.finished = <<4, 2, 3, 1>>
    /\ run.result[1].agent_name = "identity_agent"

(* C16: run_all_agents eventually returns, with the substitute in the      *)
(* place of every agent whose analyze never returns and the other agents'  *)
(* recommendations as they are.                                            *)
C16_OverdueAgentIsSubstituted ==
    <>( /\ run.pc = "returned"
        /\ \A a \in Agents :
               run.result[a] =
                   IF run.outcome[a] = "ok"
                   THEN Unfailed(AgentNames[a], run.evidence)
                   ELSE Substitute(AgentNames[a]) )

(* The ordering of the actions, the more restrictive the greater:          *)
(* REJECT > ESCALATE > MANUAL_REVIEW > REQUEST_MORE_INFO > APPROVE.        *)
Restrictiveness(action) ==
    CASE action = "reject" -> 5
      [] action = "escalate" -> 4
      [] action = "manual_review" -> 3
      [] action = "request_more_info" -> 2
      [] action = "approve" -> 1

MostRestrictive(actions) ==
    CHOOSE a \in actions : \A b \in actions : Restrictiveness(b) <= Restrictiveness(a)

Voted(strategy) ==
    /\ vote.done
    /\ vote.strategy = strategy
    /\ vote.recs # <<>>

(* The total weight the recommendations give an action, the config's       *)
(* weights with 1.0 for an agent it does not name.                         *)
TotalWeight(recs, config, action) ==
    Sum([i \in DOMAIN recs |->
            IF recs[i].action # action THEN 0
            ELSE IF recs[i].agent_name \in DOMAIN config.agent_weights
            THEN config.agent_weights[recs[i].agent_name]
            ELSE 10])

(* C17: the weighted strategy's final action has the greatest total weight *)
(* and, among the actions that tie for it, is the most restrictive.        *)
C17_WeightedTieGoesToRestrictive ==
    Voted("weighted") =>
        LET actions == {vote.recs[i].action : i \in DOMAIN vote.recs}
            heaviest == {a \in actions : \A b \in actions :
                            TotalWeight(vote.recs, vote.config, b)
                                <= TotalWeight(vote.recs, vote.config, a)}
        IN  /\ ~vote.ensemble.raised
            /\ vote.ensemble.action = MostRestrictive(heaviest)

(* C18: the conservative strategy's final action is the most restrictive   *)
(* action among the recommendations, in whatever order they come.          *)
C18_ConservativeTakesMostRestrictive ==
    Voted("conservative") =>
        /\ ~vote.ensemble.raised
        /\ vote.ensemble.action =
               MostRestrictive({vote.recs[i].action : i \in DOMAIN vote.recs})

(* C19: under risk_weighted with the aggregate risk at or above            *)
(* high_risk_threshold, the final action is MANUAL_REVIEW as soon as one   *)
(* recommendation is not APPROVE, and APPROVE only if all of them are.     *)
C19_HighRiskNeedsUnanimousApprove ==
    ( /\ vote.done
      /\ vote.strategy = "risk_weighted"
      /\ ~vote.ensemble.raised
      /\ vote.ensemble.risk_score >= vote.config.high_risk_threshold ) =>
        LET unanimous == \A i \in DOMAIN vote.recs : vote.recs[i].action = "approve"
        IN  /\ ~unanimous => vote.ensemble.action = "manual_review"
            /\ vote.ensemble.action = "approve" => unanimous
            /\ vote.ensemble.action \in {"approve", "manual_review"}

C19_Witness ==
    /\ vote.done
    /\ vote.strategy = "risk_weighted"
    /\ vote.ensemble.risk_score = vote.config.high_risk_threshold
    /\ Len(vote.recs) = 3
    /\ vote.recs[1].action = "approve"
    /\ vote.recs[2].action = "approve"
    /\ vote.recs[3].action = "manual_review"
    /\ vote.ensemble.action = "manual_review"

(* C20: whatever the strategy, the ensemble's risk_score is the greatest   *)
(* risk_score the recommendations define, 50 if none defines one, and its  *)
(* risk_flags holds every flag of every recommendation once and nothing    *)
(* else.                                                                   *)
DefinedRisks(recs) == {recs[i].risk_score : i \in DOMAIN recs} \ {Null}

AllFlags(recs) ==
    {f \in UNION {{recs[i].risk_flags[j] : j \in DOMAIN recs[i].risk_flags} :
                  i \in DOMAIN recs} : TRUE}

C20_RiskIsMaxAndFlagsAreUnion ==
    (vote.done /\ ~vote.ensemble.raised) =>
        /\ \A r \in DefinedRisks(vote.recs) : r <= vote.ensemble.risk_score
        /\ IF DefinedRisks(vote.recs) = {} THEN vote.ensemble.risk_score = 50
           ELSE vote.ensemble.risk_score \in DefinedRisks(vote.recs)
        /\ DOMAIN vote.ensemble.risk_flags = AllFlags(vote.recs)
        /\ \A f \in DOMAIN vote.ensemble.risk_flags : vote.ensemble.risk_flags[f] = 1

C20_Witness ==
    /\ vote.done
    /\ ~vote.ensemble.raised
    /\ Len(vote.recs) = 3
    /\ vote.recs[1].risk_score = Null
    /\ vote.recs[2].risk_flags = <<"address_unverified", "address_unverified">>
    /\ vote.recs[3].risk_flags = <<"sanctions_hit">>
    /\ vote.ensemble.risk_score = 100
    /\ DOMAIN vote.ensemble.risk_flags = {"address_unverified", "sanctions_hit"}

(***************************************************************************)
(* C21: evaluate_rules returns a rule whose condition is true on the       *)
(* context and whose priority is less than or equal to that of every rule  *)
(* of the policy whose condition is true, whatever the order the rules are *)
(* listed in.                                                              *)
(***************************************************************************)
TrueRules ==
    {i \in DOMAIN eval.rules :
        evaluate_condition(eval.rules[i].condition,
                           build_eval_context(eval.case, eval.ensemble))}

C21_LeastPriorityTrueRule ==
    eval.pc = "rules_done" =>
        /\ TrueRules # {} => eval.match # NoMatch
        /\ eval.match # NoMatch =>
               \E i \in TrueRules :
                   /\ eval.rules[i].name = eval.match.name
                   /\ eval.rules[i].action = eval.match.action
                   /\ \A j \in TrueRules :
                          eval.rules[i].priority <= eval.rules[j].priority

(* A list in which a true rule of greater priority number comes before the *)
(* true rule of the least one, evaluated.                                  *)
C21_Witness ==
    /\ eval.pc = "rules_done"
    /\ eval.match # NoMatch
    /\ \E i, j \in TrueRules :
           /\ i < j
           /\ eval.rules[j].priority < eval.rules[i].priority
           /\ eval.rules[j].name = eval.match.name

(***************************************************************************)
(* C22: in the rule DSL a path with a missing segment evaluates to null    *)
(* and never raises: a comparison of such a path with a literal is the     *)
(* comparison of null with the literal (so != is true and == is false),    *)
(* and the condition * is true on every context.                           *)
(***************************************************************************)
MissingPath(condition, ctx) ==
    /\ condition.op = "dot"
    /\ Len(condition.path) >= 2
    /\ ~lookup(ctx, condition.path).ok

C22_MissingPathIsNull ==
    eval.pc = "condition_done" =>
        LET ctx == build_eval_context(eval.case, eval.ensemble)
        IN  /\ eval.holds \in BOOLEAN
            /\ eval.condition = Star => eval.holds
            /\ MissingPath(eval.condition, ctx) /\ eval.condition.rel = "!="
                   => eval.holds
            /\ MissingPath(eval.condition, ctx) /\ eval.condition.rel = "=="
                   => ~eval.holds

(***************************************************************************)
(* C23: when the compliance evidence of the case has                       *)
(* sanctions_screening.status "hit", process_case matches the priority-1   *)
(* rule "Sanctions Hit": the case goes to under_review.manual_review and   *)
(* the queue assignment has assigned_role senior_compliance_officer and a  *)
(* deadline two hours after its creation.                                  *)
(***************************************************************************)
SanctionsHit ==
    /\ evidence_store.compliance.present
    /\ evidence_store.compliance.sanctions = "hit"

(* A process_case call that is over, in which no agent raised and nothing  *)
(* failed.                                                                 *)
Processed(w) ==
    /\ Over(w)
    /\ workers[w].op = "process"
    /\ workers[w].result = "ok"
    /\ ~workers[w].failed
    /\ workers[w].agent_errors = {}

C23_SanctionsHitGoesToSeniorOfficer ==
    \A w \in Workers :
        Processed(w) /\ SanctionsHit =>
            /\ workers[w].rule = "Sanctions Hit"
            /\ cases[workers[w].case_id].status = "under_review.manual_review"
            /\ \E i \in DOMAIN queue :
                   /\ queue[i].op = workers[w].id
                   /\ queue[i].assigned_role = "senior_compliance_officer"
                   /\ queue[i].sla_hours = 2

(***************************************************************************)
(* C24: for the S1 evidence under the KYC policy the four agents recommend *)
(* APPROVE, the ensemble action is APPROVE with risk_score 10, the matched *)
(* rule is "High Confidence Auto-Approve", and process_case ends with the  *)
(* case in status APPROVED.                                                *)
(***************************************************************************)
S1Evidence ==
    Evidence(Identity(TRUE, 970, RequiredFields, "future", TRUE, TRUE),
             Address(TRUE), Compliance("clear", "clear"), RiskAssessment(10, <<>>))

C24_CleanFileIsAutoApproved ==
    \A w \in Workers :
        Processed(w) /\ evidence_store = S1Evidence =>
            /\ \A a \in Agents :
                   analyze(AgentNames[a], evidence_store).action = "approve"
            /\ workers[w].ensemble = [action |-> "approve", risk_score |-> 10]
            /\ workers[w].rule = "High Confidence Auto-Approve"
            /\ workers[w].ret = "approved"
            /\ cases[workers[w].case_id].status = "approved"

C24_Witness ==
    \E w \in Workers : Processed(w) /\ evidence_store = S1Evidence

(***************************************************************************)
(* C26: a process_case call cancelled while the agents run produces no     *)
(* ensemble decision, is not treated as a processing failure (no           *)
(* case.processing_failed event, no transition to manual review) and       *)
(* leaves the case in status PROCESSING.                                   *)
(***************************************************************************)
C26_CancelLeavesCaseProcessing ==
    \A w \in Workers :
        workers[w].result = "cancelled" =>
            /\ Over(w)
            /\ workers[w].ensemble = NoDecision
            /\ \A i \in DOMAIN audit :
                   audit[i].op = workers[w].id
                       => audit[i].event_type # "case.processing_failed"
            /\ \A i \in DOMAIN writes :
                   writes[i].op = workers[w].id => writes[i].to_state = "processing"
            /\ cases[workers[w].case_id].status = "processing"

C26_Witness ==
    \E w \in Workers :
        /\ workers[w].result = "cancelled"
        /\ \E i \in DOMAIN writes :
               writes[i].op = workers[w].id /\ writes[i].to_state = "processing"

(***************************************************************************)
(* C30: when an agent fails during run_all_agents, an agent.error audit    *)
(* event is appended for the case, and process_case goes on to a terminal  *)
(* or review status without raising to its caller.                         *)
(***************************************************************************)
C30_AgentFailureIsAudited ==
    \A w \in Workers :
        Over(w) /\ workers[w].agent_errors # {} =>
            /\ \E i \in DOMAIN audit :
                   /\ audit[i].case_id = workers[w].case_id
                   /\ audit[i].event_type = "agent.error"
            /\ workers[w].result = "ok"
            /\ workers[w].ret \in TerminalStatuses \cup {"under_review.manual_review"}

(***************************************************************************)
(* C25: two concurrent process_case calls for the same case are            *)
(* serialised: at most one of them performs the transition to PROCESSING,  *)
(* runs the agents and makes a final transition; the other observes the    *)
(* state the first left and changes no status.  So two calls on one case   *)
(* are never both under way with the write of PROCESSING behind them.      *)
(***************************************************************************)
WroteProcessing(w) ==
    /\ workers[w].op = "process"
    /\ workers[w].pc \notin {"idle", "done"}
    /\ \E i \in DOMAIN writes :
           writes[i].op = workers[w].id /\ writes[i].to_state = "processing"

C25_ConcurrentProcessIsSerialised ==
    \A w1, w2 \in Workers :
        /\ w1 # w2
        /\ workers[w1].case_id = workers[w2].case_id
        /\ WroteProcessing(w1)
        => ~WroteProcessing(w2)

(***************************************************************************)
(* C27: replay_case is a fold of the audit events appended for the case:   *)
(* for the history [created, submitted, processing, ensemble_stored,       *)
(* state_transition to APPROVED] it reports event_count 5 and the          *)
(* reconstructed status APPROVED, and two calls on the unchanged case give *)
(* the same result.                                                        *)
(***************************************************************************)
C27_ReplayFoldsTheHistory ==
    \A i \in DOMAIN trail.replay :
        trail.replay[i].at = Len(Lifecycle) =>
            /\ trail.replay[i].result.event_count = 5
            /\ trail.replay[i].result.reconstructed_state = "approved"
            /\ \A j \in DOMAIN trail.replay :
                   trail.replay[j].at = trail.replay[i].at
                       => trail.replay[j].result = trail.replay[i].result

(***************************************************************************)
(* C28: in every reachable state of the audit log no two events share an   *)
(* event id, and the events of a case, in the order they were appended,    *)
(* are strictly increasing in (timestamp, event_id), also when two events  *)
(* of the case have the same timestamp.                                    *)
(***************************************************************************)
Before(e, f) ==
    \/ e.timestamp < f.timestamp
    \/ e.timestamp = f.timestamp /\ e.event_id < f.event_id

C28_EventsStrictlyIncrease ==
    \A i, j \in DOMAIN trail.events :
        i < j =>
            /\ trail.events[i].event_id # trail.events[j].event_id
            /\ trail.events[i].case_id = trail.events[j].case_id
                   => Before(trail.events[i], trail.events[j])

(***************************************************************************)
(* C29: each of the four agents, when the evidence type it analyses is     *)
(* missing from its input, returns MANUAL_REVIEW with confidence 0 and     *)
(* risk_score 100 and a flag for the missing evidence.                     *)
(***************************************************************************)
AnalysedType(agent_name) ==
    CASE agent_name = "identity_agent" -> "identity"
      [] agent_name = "fraud_agent" -> "identity"
      [] agent_name = "compliance_agent" -> "compliance"
      [] agent_name = "risk_agent" -> "risk_assessment"

C29_MissingEvidenceGivesManualReview ==
    \A a \in Agents :
        /\ run.tasks[a].pc = "done"
        /\ run.outcome[a] = "ok"
        /\ ~run.evidence[AnalysedType(AgentNames[a])].present
        => /\ run.tasks[a].rec.action = "manual_review"
           /\ run.tasks[a].rec.confidence = 0
           /\ run.tasks[a].rec.risk_score = 100
           /\ run.tasks[a].rec.risk_flags # <<>>

(***************************************************************************)
(* C31: when evidence collection fails during process_case, the agents are *)
(* still run and an ensemble decision is synthesised from their            *)
(* recommendations before the case is routed: a process_case call that is  *)
(* over and whose evidence collection failed has run the agents and holds  *)
(* an ensemble decision.                                                   *)
(***************************************************************************)
C31_AgentsRunWithoutEvidence ==
    \A w \in Workers :
        Over(w) /\ workers[w].evidence = "failed" =>
            /\ workers[w].ensemble # NoDecision
            /\ workers[w].ensemble.action \in ActionType

(***************************************************************************)
(* C32: a rule whose condition raises when it is evaluated is treated as   *)
(* not matching and evaluate_rules goes on with the next rule in priority  *)
(* order: the rule returned is never one that raised, and whenever some    *)
(* rule holds without raising (the * default among them) the call returns  *)
(* the one of them of least priority, whatever raised before it.           *)
(***************************************************************************)
Raises(condition, ctx) ==
    /\ condition.op # "*"
    /\ eval_expr(translate_condition(condition), ctx) = "E"

Holds(condition, ctx) ==
    \/ condition.op = "*"
    \/ eval_expr(translate_condition(condition), ctx) = "T"

C32_RaisingRuleIsSkipped ==
    eval.pc = "rules_done" =>
        LET ctx == build_eval_context(eval.case, eval.ensemble)
            raising == {i \in DOMAIN eval.rules : Raises(eval.rules[i].condition, ctx)}
            holding == {i \in DOMAIN eval.rules : Holds(eval.rules[i].condition, ctx)}
        IN  /\ \A i \in raising : eval.match.name # eval.rules[i].name
            /\ holding # {} =>
                   \E i \in holding :
                       /\ eval.match.name = eval.rules[i].name
                       /\ eval.match.action = eval.rules[i].action
                       /\ \A j \in holding :
                              eval.rules[i].priority <= eval.rules[j].priority

(* A rule that raises comes, in priority order, before the * default, and  *)
(* the default is what the call returns.                                   *)
C32_Witness ==
    /\ eval.pc = "rules_done"
    /\ eval.match.name = "Default Manual Review"
    /\ \E i, j \in DOMAIN eval.rules :
           /\ Raises(eval.rules[i].condition,
                     build_eval_context(eval.case, eval.ensemble))
           /\ eval.rules[j].condition = Star
           /\ eval.rules[i].priority < eval.rules[j].priority

(***************************************************************************)
(* C33: under risk_weighted with the aggregate risk at or below            *)
(* low_risk_threshold, the final action is the action the greatest number  *)
(* of agents voted for and, among the actions that tie on that count, the  *)
(* most restrictive one.                                                   *)
(***************************************************************************)
VoteCount(recs, action) ==
    Cardinality({i \in DOMAIN recs : recs[i].action = action})

C33_LowRiskTieGoesToRestrictive ==
    ( /\ Voted("risk_weighted")
      /\ ~vote.ensemble.raised
      /\ vote.ensemble.risk_score <= vote.config.low_risk_threshold ) =>
        LET actions == {vote.recs[i].action : i \in DOMAIN vote.recs}
            most_voted == {a \in actions : \A b \in actions :
                              VoteCount(vote.recs, b) <= VoteCount(vote.recs, a)}
        IN  vote.ensemble.action = MostRestrictive(most_voted)

(***************************************************************************)
(* C34: under risk_weighted with the aggregate risk strictly between       *)
(* low_risk_threshold and high_risk_threshold, the final action and the    *)
(* weighted confidence are those the weighted strategy computes for the    *)
(* same recommendations and the same agent_weights.                        *)
(***************************************************************************)
MediumRisk ==
    /\ vote.done
    /\ vote.strategy = "risk_weighted"
    /\ ~vote.ensemble.raised
    /\ vote.ensemble.risk_score > vote.config.low_risk_threshold
    /\ vote.ensemble.risk_score < vote.config.high_risk_threshold

C34_MediumRiskIsWeighted ==
    MediumRisk =>
        LET weighted == weighted_voting(vote.recs, vote.config)
        IN  /\ ~weighted.raised
            /\ vote.ensemble.action = weighted.action
            /\ vote.ensemble.confidence = weighted.confidence
            /\ vote.ensemble.voting_details.weighted_confidence = weighted.confidence

(* A medium risk where the action of the greatest weight is not the one a  *)
(* count of the votes gives.                                               *)
C34_Witness ==
    /\ MediumRisk
    /\ vote.config = KycConfig
    /\ Len(vote.recs) = 3
    /\ vote.ensemble.action # dict_max(vote.ensemble.agent_votes,
                                       action_counts(vote.ensemble.agent_votes))

(***************************************************************************)
(* C35: the condition of the rule "High Confidence Auto-Approve" holds     *)
(* exactly when the ensemble confidence is strictly greater than 0.95 and  *)
(* the ensemble risk_score is strictly less than 20: at risk 19 it does    *)
(* not hold for confidence 0.95 and holds for 0.951, and at confidence     *)
(* 0.96 it does not hold for risk 20.  The same for the rule written in    *)
(* the DSL.                                                                *)
(***************************************************************************)
AutoApprove ==
    { KycRules[2].condition,
      AndDsl(Dot(<<"ensemble", "confidence">>, ">", 950000),
             Dot(<<"ensemble", "risk_score">>, "<", 20)) }

C35_AutoApproveIsStrict ==
    (eval.pc = "condition_done" /\ eval.condition \in AutoApprove) =>
        /\ eval.holds <=> /\ eval.ensemble.confidence > 950000
                          /\ eval.ensemble.risk_score < 20
        /\ (eval.ensemble.confidence = 950000 /\ eval.ensemble.risk_score = 19)
               => ~eval.holds
        /\ (eval.ensemble.confidence = 951000 /\ eval.ensemble.risk_score = 19)
               => eval.holds
        /\ (eval.ensemble.confidence = 960000 /\ eval.ensemble.risk_score = 20)
               => ~eval.holds

C35_Witness ==
    /\ eval.pc = "condition_done"
    /\ eval.condition = KycRules[2].condition
    /\ eval.ensemble.confidence = 951000
    /\ eval.ensemble.risk_score = 19
    /\ eval.holds

(***************************************************************************)
(* C36: whatever the strategy, the agent votes of the ensemble decision    *)
(* are one per recommendation, in the order of the recommendations, each   *)
(* with the agent, action and confidence of its recommendation; so the     *)
(* vote of an agent that failed (its recommendation is the substitute) has *)
(* action MANUAL_REVIEW and confidence 0.                                  *)
(***************************************************************************)
C36_OneVotePerRecommendation ==
    (vote.done /\ ~vote.ensemble.raised) =>
        /\ Len(vote.ensemble.agent_votes) = Len(vote.recs)
        /\ \A i \in DOMAIN vote.recs :
               /\ vote.ensemble.agent_votes[i].agent = vote.recs[i].agent_name
               /\ vote.ensemble.agent_votes[i].action = vote.recs[i].action
               /\ vote.ensemble.agent_votes[i].confidence = vote.recs[i].confidence
               /\ vote.recs[i] = Substitute(vote.recs[i].agent_name) =>
                      /\ vote.ensemble.agent_votes[i].action = "manual_review"
                      /\ vote.ensemble.agent_votes[i].confidence = 0

(* The substitute of a failed agent between two other recommendations.     *)
C36_Witness ==
    /\ vote.done
    /\ ~vote.ensemble.raised
    /\ Len(vote.recs) = 3
    /\ vote.recs[2] = Substitute("fraud_agent")
    /\ vote.recs[1].action = "approve"
    /\ vote.recs[3].action = "escalate"
    /\ vote.ensemble.agent_votes[2].agent = "fraud_agent"
    /\ vote.ensemble.agent_votes[2].confidence = 0

(***************************************************************************)
(* C37: terminal statuses are absorbing: once the status of a case is      *)
(* APPROVED, REJECTED or EXPIRED, no step of a submit_case, process_case   *)
(* or review_case call changes it.                                         *)
(***************************************************************************)
C37_TerminalIsAbsorbing ==
    [][\A c \in CaseIds :
          cases[c].status \in TerminalStatuses
              => cases'[c].status = cases[c].status]_vars

(***************************************************************************)
(* C38: a process_case run that leaves the case under manual review has    *)
(* created exactly one queue assignment for it, and one that leaves it     *)
(* APPROVED or REJECTED has created none; the same when manual review is   *)
(* reached through the except branch.                                      *)
(***************************************************************************)
AssignmentsOf(id) == {i \in DOMAIN queue : queue[i].op = id}

C38_OneAssignmentPerManualReview ==
    \A w \in Workers :
        (Over(w) /\ workers[w].processed # "none" /\ workers[w].result = "ok") =>
            /\ workers[w].processed = ManualReview
                   => /\ Cardinality(AssignmentsOf(workers[w].id)) = 1
                      /\ \A i \in AssignmentsOf(workers[w].id) :
                             queue[i].case_id = workers[w].case_id
            /\ workers[w].processed \in {"approved", "rejected"}
                   => AssignmentsOf(workers[w].id) = {}

(***************************************************************************)
(* C39: every state_transition event records as from-state the status the  *)
(* case had in the store just before the status write of that transition:  *)
(* the k-th status write of an operation found the case in the status the  *)
(* operation's k-th state_transition event names as from-state, the write  *)
(* of the except branch of process_case included.                          *)
(***************************************************************************)
C39_EventFromStateIsStoredStatus ==
    \A i \in DOMAIN writes :
        LET id == writes[i].op
            k == Cardinality({j \in 1..i : writes[j].op = id})
            events == TransitionEvents(id)
        IN  /\ Len(events) >= k
            /\ events[k].from_state = writes[i].from_state

(***************************************************************************)
(* C40: the case a successful submit_case returns has the status the case  *)
(* has in the store at the moment the call returns, that is the status     *)
(* reached by the processing it ran, not an earlier one.                   *)
(***************************************************************************)
SubmitReturns(w) ==
    /\ workers[w].pc # "done"
    /\ workers'[w].pc = "done"
    /\ workers'[w].op = "submit"
    /\ workers'[w].result = "ok"

C40_SubmitReturnsStoredStatus ==
    [][\A w \in Workers :
          SubmitReturns(w) =>
              workers'[w].ret = cases'[workers'[w].case_id].status]_vars
====
